---- MODULE Spec2Model ----
(***************************************************************************)
(* Trademark search server (server.js): the per-name pipeline processName  *)
(* (search page -> detail links -> cached or fetched detail records ->     *)
(* score), the per-name cache files, and the /api/search batch handler.    *)
(*                                                                         *)
(* A JavaScript job runs to its next `await` without interruption, so the  *)
(* actions are: the arrival of a request (runs up to the first search      *)
(* fetch), the arrival of a search response, the arrival of a detail       *)
(* response, and the environment changing an upstream page.                *)
(***************************************************************************)
EXTENDS Integers, Sequences, FiniteSets, TLC

\* ------------------------------------------------------------------ bounds
MaxCalls == 2       \* processName calls started in one behaviour
MaxChanges == 1     \* upstream changes in one behaviour
MaxBatch == 2       \* pieces of the names field of one request
MaxText == 3        \* characters of a text whose encoding is compared
MaxMarkup == 3      \* tokens of a markup handed to a parsing function
MaxCell == 5        \* tokens of the owner cell of such a markup
MaxRequests == 3    \* /api/search requests the page sends in one behaviour
MaxInput == 2       \* characters in the input of the page
MaxChips == 2       \* chips on the page

\* ------------------------------------------------------------- the universe
Procs == {"r1", "r2"}                  \* request handlers that may overlap
Names == {"acme", "__proto__"}         \* search terms
LinkA == "/australia/trademark/trademark-detail/1/a"
LinkB == "/australia/trademark/trademark-detail/2/b"
Links == {LinkA, LinkB}
LinkUpper == "/Australia/Trademark/Trademark-Detail/1/a"
LinkNoId == "/australia/trademark/trademark-detail/x/a"
SearchPath == "/australia/trademark/trademark-search.aspx"

NoVal == [undefined |-> TRUE]          \* the value of a property that is not there
Present(v) == "undefined" \notin DOMAIN v

baseUrl == "https://www.trademarkelite.com"
RedClasses == {"009", "028", "041"}

\* A string as the sequence of its characters.
Characters(s) ==
    CASE s = "acme" -> <<"a", "c", "m", "e">>
      [] s = "__proto__" -> <<"_", "_", "p", "r", "o", "t", "o", "_", "_">>

\* encodeURIComponent: letters, digits and - _ . ! ~ * ' ( ) stay, every
\* other character becomes the %XX of its bytes.
Unreserved ==
    { "a", "b", "c", "d", "e", "f", "g", "h", "i", "j", "k", "l", "m",
      "n", "o", "p", "q", "r", "s", "t", "u", "v", "w", "x", "y", "z",
      "A", "B", "C", "D", "E", "F", "G", "H", "I", "J", "K", "L", "M",
      "N", "O", "P", "Q", "R", "S", "T", "U", "V", "W", "X", "Y", "Z",
      "0", "1", "2", "3", "4", "5", "6", "7", "8", "9",
      "-", "_", ".", "!", "~", "*", "'", "(", ")" }
Escape(ch) ==
    IF ch \in Unreserved THEN <<ch>>
    ELSE CASE ch = "/" -> <<"%", "2", "F">>
           [] ch = "%" -> <<"%", "2", "5">>
           [] ch = " " -> <<"%", "2", "0">>

\* A variant that escapes the path separator and the space only.
RECURSIVE EncodeSeparatorsOnly(_)
EncodeSeparatorsOnly(text) ==
    IF text = <<>> THEN <<>>
    ELSE (IF Head(text) = "%" THEN <<"%">> ELSE Escape(Head(text)))
         \o EncodeSeparatorsOnly(Tail(text))

RECURSIVE EncodeURIComponent(_)
EncodeURIComponent(text) ==
    IF text = <<>> THEN <<>>
    ELSE Escape(Head(text)) \o EncodeURIComponent(Tail(text))
Encoded == [name \in Names |-> EncodeURIComponent(Characters(name))]
Url(relLink) == <<baseUrl, relLink>>
SearchUrl(name) ==
    <<baseUrl, "/australia/trademark/trademark-search.aspx?sw=", Encoded[name]>>
URLs == {Url(l) : l \in Links}
SafeName(name) == Encoded[name]
Keys == {SafeName(n) : n \in Names}

\* ------------------------------------------------------------ upstream pages
\* A search page is the sequence of detail-link occurrences in its markup; a
\* detail page is the sequence of its status words and "Class ddd" mentions.
RECURSIVE SeqsUpTo(_, _)
SeqsUpTo(S, n) ==
    IF n = 0 THEN {<<>>}
    ELSE LET shorter == SeqsUpTo(S, n - 1)
         IN  shorter \cup {Append(s, x) : s \in {t \in shorter : Len(t) = n - 1}, x \in S}

SearchPages == {<<>>, <<LinkA>>, <<LinkA, LinkB>>, <<LinkB, LinkA, LinkB>>}
\* Markup is a sequence of tokens: words, " " for a run of white space,
\* tags, and "<owner>" for the opening of the Trademark Owner cell
\* (<th>Trademark Owner</th><td>).
PageYellow == <<" ", "LIVE", " ", "Class 035">>
PageDead == <<" ", "DEAD", " ", "Class 028">>
PageRed == <<"Class 035", " ", "LIVE", " ", "Class 009", "Class 035",
             "<owner>", "Acme", " ", "U+2192", " ", "Sydney", "</td>">>
DetailPages == {PageYellow, PageDead, PageRed}

HttpError(code) == [kind |-> "http", status |-> code]
Ok(body) == [kind |-> "ok", body |-> body]
Failures == {HttpError(503)}
SearchResponses == {Ok(b) : b \in SearchPages} \cup Failures
DetailResponses == {Ok(b) : b \in DetailPages} \cup Failures

\* A variant without the res.ok test: the body of any response is returned.
FetchPageAnyStatus(url, resp) ==
    [threw |-> FALSE, text |-> IF resp.kind = "ok" THEN resp.body ELSE <<>>]

\* fetchPage: the text of a successful response, an Error otherwise.
FetchPage(url, resp) ==
    IF resp.kind = "ok" THEN [threw |-> FALSE, text |-> resp.body]
    ELSE [threw |-> TRUE, message |-> <<"Failed to fetch", url, resp.status>>]

\* Array.from(new Set(matches)): first occurrences, in order.
RECURSIVE Dedupe(_)
Dedupe(s) ==
    IF s = <<>> THEN <<>>
    ELSE LET front == Dedupe(SubSeq(s, 1, Len(s) - 1))
             x == s[Len(s)]
         IN  IF \E k \in 1..Len(front) : front[k] = x THEN front ELSE Append(front, x)

\* A variant that keeps every occurrence.
ExtractEveryMatch(html) == html

\* The segments of a path token.
Segments(token) ==
    CASE token = LinkA -> <<"australia", "trademark", "trademark-detail", "1", "a">>
      [] token = LinkB -> <<"australia", "trademark", "trademark-detail", "2", "b">>
      [] token = LinkUpper -> <<"Australia", "Trademark", "Trademark-Detail", "1", "a">>
      [] token = LinkNoId -> <<"australia", "trademark", "trademark-detail", "x", "a">>
      [] token = SearchPath -> <<"australia", "trademark", "trademark-search.aspx">>
      [] OTHER -> <<>>
LowerCase(segment) ==
    CASE segment = "Australia" -> "australia"
      [] segment = "Trademark" -> "trademark"
      [] segment = "Trademark-Detail" -> "trademark-detail"
      [] OTHER -> segment
Digits == {"1", "2"}

\* line 62: /\/australia\/trademark\/trademark-detail\/\d+\/[^"'>]+/gi.
IsDetailPath(token) ==
    LET sg == Segments(token)
    IN  /\ Len(sg) = 5
        /\ LowerCase(sg[1]) = "australia" /\ LowerCase(sg[2]) = "trademark"
        /\ LowerCase(sg[3]) = "trademark-detail"
        /\ sg[4] \in Digits /\ sg[5] # ""

\* A variant that keeps a repeated path where it occurs last.
RECURSIVE DedupeKeepLast(_)
DedupeKeepLast(s) ==
    IF s = <<>> THEN <<>>
    ELSE LET back == DedupeKeepLast(Tail(s))
         IN  IF \E k \in 1..Len(back) : back[k] = Head(s) THEN back ELSE <<Head(s)>> \o back
ExtractDetailLinksKeepLast(html) == DedupeKeepLast(SelectSeq(html, IsDetailPath))

\* lines 61-65.
ExtractDetailLinks(html) == Dedupe(SelectSeq(html, IsDetailPath))

ClassCode(token) ==
    IF token = "Class 009" THEN "009"
    ELSE IF token = "Class 028" THEN "028"
    ELSE IF token = "Class 035" THEN "035"
    ELSE IF token = "Class 041" THEN "041"
    ELSE ""

\* The i flag of the status tests.
UpperCase(token) ==
    CASE token = "live" -> "LIVE"
      [] token = "dead" -> "DEAD"
      [] OTHER -> token
IsSpace(token) == token = " "

\* /\sLIVE\s/i, /\sDEAD\s/i: the word with white space on both sides.
Spaced(html, word) ==
    \E k \in 2..(Len(html) - 1) :
       UpperCase(html[k]) = word /\ IsSpace(html[k - 1]) /\ IsSpace(html[k + 1])

\* lines 131-136.
ParseStatus(html) ==
    IF Spaced(html, "LIVE") THEN "LIVE"
    ELSE IF Spaced(html, "DEAD") THEN "DEAD"
    ELSE ""

ParseClasses(html) ==
    Dedupe(SelectSeq([k \in 1..Len(html) |-> ClassCode(html[k])], LAMBDA c : c # ""))

\* ---- the owner cell, lines 88-129.  A string is the sequence of its tokens;
\* a character outside ASCII is the token of its code point.
Tags == {"<td>", "</td>", "<br>", "<div>", "</div>", "<owner>"}
DashArrows == {"->", "-->"}                       \* [-]+>
ArrowTokens == DashArrows \cup {"U+2192", "&gt;"}       \* line 117
MojibakeArrowTokens == DashArrows \cup {"U+00E2 U+2020 U+2019", "&gt;"}   \* line 427

RECURSIVE TrimLeft(_)
TrimLeft(text) == IF text # <<>> /\ IsSpace(Head(text)) THEN TrimLeft(Tail(text)) ELSE text
RECURSIVE TrimRight(_)
TrimRight(text) ==
    IF text # <<>> /\ IsSpace(text[Len(text)])
    THEN TrimRight(SubSeq(text, 1, Len(text) - 1)) ELSE text
TrimText(text) == TrimLeft(TrimRight(text))

\* .replace(/\s+/g, ' ')
RECURSIVE Collapse(_)
Collapse(text) ==
    IF Len(text) < 2 THEN text
    ELSE IF IsSpace(text[1]) /\ IsSpace(text[2]) THEN Collapse(Tail(text))
    ELSE <<Head(text)>> \o Collapse(Tail(text))

\* lines 110-114 (and 97-101, 75-79): tags and &nbsp; become a space, runs
\* of white space one space, and the ends are trimmed.
Clean(raw) ==
    TrimText(Collapse([k \in 1..Len(raw) |->
                          IF raw[k] \in Tags \/ raw[k] = "&nbsp;" THEN " " ELSE raw[k]]))

RECURSIVE SplitAt(_, _)
SplitAt(text, seps) ==
    IF \A k \in 1..Len(text) : text[k] \notin seps THEN <<text>>
    ELSE LET k == CHOOSE i \in 1..Len(text) :
                     text[i] \in seps /\ \A j \in 1..(i - 1) : text[j] \notin seps
         IN  <<SubSeq(text, 1, k - 1)>> \o SplitAt(SubSeq(text, k + 1, Len(text)), seps)
RECURSIVE Join(_, _)
Join(pieces, sep) ==
    IF pieces = <<>> THEN <<>>
    ELSE IF Len(pieces) = 1 THEN pieces[1]
    ELSE pieces[1] \o <<sep>> \o Join(Tail(pieces), sep)

\* line 117: split(/\s*ARROW\s*/).filter(Boolean); the white space around
\* an arrow belongs to the separator.
ArrowSplit(cleaned, arrows) ==
    LET pieces == SplitAt(cleaned, arrows)
    IN  SelectSeq([k \in 1..Len(pieces) |-> TrimText(pieces[k])], LAMBDA x : x # <<>>)

\* .replace(/\s*[-]+>\s*/g, ' ')
ReplaceDashArrows(text) ==
    LET pieces == SplitAt(text, DashArrows)
        n == Len(pieces)
    IN  Join([k \in 1..n |->
                 LET right == IF k < n THEN TrimRight(pieces[k]) ELSE pieces[k]
                 IN  IF k > 1 THEN TrimLeft(right) ELSE right], " ")

\* lines 94-104: the texts of the <div> blocks of the cell that are not empty.
RECURSIVE DivParts(_)
DivParts(td) ==
    IF \E i, j \in 1..Len(td) : i < j /\ td[i] = "<div>" /\ td[j] = "</div>"
    THEN LET i == CHOOSE a \in 1..Len(td) :
                     td[a] = "<div>" /\ \A b \in 1..(a - 1) : td[b] # "<div>"
             j == CHOOSE a \in (i + 1)..Len(td) :
                     td[a] = "</div>" /\ \A b \in (i + 1)..(a - 1) : td[b] # "</div>"
             text == ReplaceDashArrows(Clean(SubSeq(td, i + 1, j - 1)))
         IN  (IF text # <<>> THEN <<text>> ELSE <<>>) \o DivParts(SubSeq(td, j + 1, Len(td)))
    ELSE <<>>

\* line 91: the content of the first Trademark Owner cell, if there is one.
HasOwnerCell(html) ==
    \E i, j \in 1..Len(html) : i < j /\ html[i] = "<owner>" /\ html[j] = "</td>"
OwnerCell(html) ==
    LET i == CHOOSE a \in 1..Len(html) :
                /\ html[a] = "<owner>" /\ \E b \in (a + 1)..Len(html) : html[b] = "</td>"
                /\ \A c \in 1..(a - 1) : html[c] # "<owner>"
        j == CHOOSE a \in (i + 1)..Len(html) :
                html[a] = "</td>" /\ \A b \in (i + 1)..(a - 1) : html[b] # "</td>"
    IN  SubSeq(html, i + 1, j - 1)

\* lines 88-129, with the arrows of the split at line 117 (or 427).
OwnerFields(html, arrows) ==
    IF ~HasOwnerCell(html) THEN [ownerName |-> <<>>, ownerAddress |-> <<>>]
    ELSE LET tdHtml == OwnerCell(html)
             parts == DivParts(tdHtml)
             cleaned == Clean(tdHtml)
             arrowSplit == ArrowSplit(cleaned, arrows)
         IN  IF parts # <<>>
             THEN [ownerName |-> parts[1],
                   ownerAddress |-> IF Len(parts) > 1 THEN Join(Tail(parts), " ") ELSE <<>>]
             ELSE IF arrowSplit # <<>>
             THEN [ownerName |-> TrimText(arrowSplit[1]),
                   ownerAddress |-> IF Len(arrowSplit) > 1
                                    THEN TrimText(Join(Tail(arrowSplit), " ")) ELSE <<>>]
             ELSE [ownerName |-> TrimText(ReplaceDashArrows(cleaned)), ownerAddress |-> <<>>]

\* A variant that leaves the address out of owner.
OwnerNameOnly(ownerName, ownerAddress) == ownerName

\* lines 156-158.
Owner(ownerName, ownerAddress) ==
    IF ownerAddress # <<>> THEN ownerName \o <<",", " ">> \o ownerAddress ELSE ownerName

\* lines 67-170 (377-480 with the other arrows); the fields read from the
\* table rows by label play no part in the classification and are left out.
ParseDetailWith(html, arrows) ==
    LET o == OwnerFields(html, arrows)
    IN  [ ownerName |-> o.ownerName, ownerAddress |-> o.ownerAddress,
          owner |-> Owner(o.ownerName, o.ownerAddress),
          status |-> ParseStatus(html), classes |-> ParseClasses(html) ]
ParseDetail(html) == ParseDetailWith(html, ArrowTokens)
ParseDetailNoCache(html) == ParseDetailWith(html, MojibakeArrowTokens)

\* ------------------------------------------------------------------ objects
HasProp(obj, f) == f \in DOMAIN obj
SetProp(obj, f, v) == [x \in DOMAIN obj \cup {f} |-> IF x = f THEN v ELSE obj[x]]

EmptyMap == [u \in URLs |-> NoVal]

\* ---------------------------------------------------------------- the files
AbsentFile == [kind |-> "absent"]
CorruptFile == [kind |-> "corrupt"]
JsonFile(value) == [kind |-> "json", value |-> value]

\* JSON text is modelled by its structure: an object is the sequence of its
\* members <<key, value>> in property order, strings and arrays of strings
\* stand for themselves.  PropertyOrder is the order in which parseDetail
\* and processName create the properties of a record, UrlOrder the order of
\* the keys of the mapping.
PropertyOrder == <<"ownerName", "ownerAddress", "owner", "status", "classes", "detailUrl">>
UrlOrder == <<Url(LinkA), Url(LinkB)>>

\* A variant that writes no member whose value is a list.
JsonObjectSkipsArrays(obj, order) ==
    LET keys == SelectSeq(order, LAMBDA f : f \in DOMAIN obj /\ f # "classes")
    IN  [k \in 1..Len(keys) |-> <<keys[k], obj[keys[k]]>>]

JsonObject(obj, order) ==
    LET keys == SelectSeq(order, LAMBDA f : f \in DOMAIN obj)
    IN  [k \in 1..Len(keys) |-> <<keys[k], obj[keys[k]]>>]
Member(members, key) == members[CHOOSE k \in 1..Len(members) : members[k][1] = key][2]
HasMember(members, key) == \E k \in 1..Len(members) : members[k][1] = key
ObjectOf(members) ==
    [f \in {members[k][1] : k \in 1..Len(members)} |-> Member(members, f)]

\* JSON.stringify / JSON.parse of the cache object {detailCache: cached}.
\* A property whose value is undefined is not written.
JSONstringify(data) ==
    IF data.hasDetailCache
    THEN LET urls == SelectSeq(UrlOrder, LAMBDA u : Present(data.detailCache[u]))
         IN  JsonFile(<< <<"detailCache",
                          [k \in 1..Len(urls) |->
                              <<urls[k], JsonObject(data.detailCache[urls[k]], PropertyOrder)>>]>> >>)
    ELSE JsonFile(<<>>)
JSONparse(file) ==
    IF file.kind = "json"
    THEN [threw |-> FALSE,
          value |-> IF HasMember(file.value, "detailCache")
                    THEN LET mapping == Member(file.value, "detailCache")
                         IN  [hasDetailCache |-> TRUE,
                              detailCache |->
                                 [u \in URLs |-> IF HasMember(mapping, u)
                                                 THEN ObjectOf(Member(mapping, u))
                                                 ELSE NoVal]]
                    ELSE [hasDetailCache |-> FALSE]]
    ELSE [threw |-> TRUE]

\* A variant that salvages a record out of a file it cannot parse.
LoadCacheSalvaging(fs, name) ==
    LET file == fs[SafeName(name)]
    IN  IF file.kind = "json" THEN JSONparse(file).value
        ELSE IF file.kind = "corrupt"
        THEN [hasDetailCache |-> TRUE,
              detailCache |-> [EmptyMap EXCEPT ![Url(LinkA)] =
                                  [status |-> "DEAD", classes |-> <<"028">>,
                                   detailUrl |-> Url(LinkA)]]]
        ELSE [hasDetailCache |-> FALSE]

\* lines 24-37. A corrupt file is one that exists and makes readFileSync or
\* JSON.parse throw.
LoadCache(fs, name) ==
    LET file == fs[SafeName(name)]
    IN  IF file.kind # "absent"
        THEN LET parsed == JSONparse(file)
             IN  IF parsed.threw THEN [hasDetailCache |-> FALSE] ELSE parsed.value
        ELSE [hasDetailCache |-> FALSE]

\* A variant that never reaches the disk.
SaveCacheNowhere(fs, name, data, writeOk) == fs

SaveCache(fs, name, data, writeOk) ==
    IF writeOk THEN [fs EXCEPT ![SafeName(name)] = JSONstringify(data)]
    ELSE fs

\* Files left by earlier runs or edited by hand: a record written without
\* detailUrl, and one that also lacks classes.
LegacyFiles ==
    { JSONstringify([hasDetailCache |-> FALSE]),
      JSONstringify([hasDetailCache |-> TRUE,
                     detailCache |-> [EmptyMap EXCEPT ![Url(LinkA)] =
                                         [status |-> "LIVE", classes |-> <<"035">>]]]),
      JSONstringify([hasDetailCache |-> TRUE,
                     detailCache |-> [EmptyMap EXCEPT ![Url(LinkA)] = [status |-> "LIVE"]]]) }
InitFiles == {AbsentFile, CorruptFile} \cup LegacyFiles

\* ------------------------------------------------------------------- state
VARIABLES
    search,     \* upstream: the response to the search request of each name
    detail,     \* upstream: the response to the request of each detail link
    epoch,      \* number of upstream changes so far
    files,      \* the cache directory: storage key -> file
    req,        \* per handler: the /api/search request it is serving
    call,       \* per handler: the locals of its running processName call
    hist,       \* per name: the last two finished processName calls
    ncalls,     \* processName calls started so far
    markup,     \* the text handed to a parsing function
    parsed,     \* the parsing function called on it and what it returned
    client      \* the state of the page in the browser

vars == <<search, detail, epoch, files, req, call, hist, ncalls, markup, parsed, client>>

NotCalled == [fn |-> "none"]
NoClient == [open |-> FALSE]

Event(op, arg) == [op |-> op, arg |-> arg]

IdleReq == [pc |-> "idle"]
IdleCall == [at |-> "none"]

\* A variant that skips the search request of a name that has a cache file.
NewCallCacheFirst(name, ep) ==
    [ at |-> "search", name |-> name, searchHtml |-> <<>>, detailLinks |-> <<>>, i |-> 1,
      details |-> <<>>, hasLive |-> FALSE, hasRedMark |-> FALSE,
      cached |-> EmptyMap, loaded |-> EmptyMap, err |-> <<>>,
      trace |-> IF files[SafeName(name)].kind = "json" THEN <<>>
                ELSE <<Event("fetch", SearchUrl(name))>>,
      epoch0 |-> ep ]

\* processName, lines 172-178: the locals at the first await.
NewCall(name, ep) ==
    [ at |-> "search", name |-> name, searchHtml |-> <<>>, detailLinks |-> <<>>, i |-> 1,
      details |-> <<>>, hasLive |-> FALSE, hasRedMark |-> FALSE,
      cached |-> EmptyMap, loaded |-> EmptyMap, err |-> <<>>,
      trace |-> <<Event("fetch", SearchUrl(name))>>, epoch0 |-> ep ]

\* ------------------------------------------------------------- processName
\* lines 203-208 and 222-227: includes009 || includes028 || includes041.
IsFlagged(info) == \E k \in 1..Len(info.classes) : info.classes[k] \in RedClasses

\* A variant that notes a flagged class whatever the status of the record.
AccountAnyStatus(c, info) ==
    [c EXCEPT !.hasLive = c.hasLive \/ info.status = "LIVE",
              !.hasRedMark = c.hasRedMark \/ IsFlagged(info)]

\* A variant that looks at the classes of the first live record only.
AccountFirstLive(c, info) ==
    IF info.status = "LIVE"
    THEN [c EXCEPT !.hasLive = TRUE,
                   !.hasRedMark = IF c.hasLive THEN c.hasRedMark ELSE IsFlagged(info)]
    ELSE c

\* lines 201-209 and 220-228.
Account(c, info) ==
    IF info.status = "LIVE"
    THEN [c EXCEPT !.hasLive = TRUE, !.hasRedMark = c.hasRedMark \/ IsFlagged(info)]
    ELSE c

TypeErrorMessage == <<"Cannot read properties of undefined (reading 'includes')">>

\* A variant that reports the record as it was stored.
ReuseCachedAsStored(c, url) ==
    LET info == c.cached[url]
        c1 == [c EXCEPT !.details = Append(@, info)]
    IN  IF info.status = "LIVE" /\ ~HasProp(info, "classes")
        THEN [c1 EXCEPT !.hasLive = TRUE, !.at = "threw", !.err = TypeErrorMessage]
        ELSE [Account(c1, info) EXCEPT !.i = c.i + 1]

\* lines 194-210: the URL is in the cache mapping. Reading info.classes of a
\* live record that has no classes throws out of the loop (no try around it).
ReuseCached(c, url) ==
    LET found == c.cached[url]
        info == IF HasProp(found, "detailUrl") THEN found
                ELSE SetProp(found, "detailUrl", url)
        c1 == [c EXCEPT !.details = Append(@, info), !.cached[url] = info]
    IN  IF info.status = "LIVE" /\ ~HasProp(info, "classes")
        THEN [c1 EXCEPT !.hasLive = TRUE, !.at = "threw", !.err = TypeErrorMessage]
        ELSE [Account(c1, info) EXCEPT !.i = c.i + 1]

\* A variant that never finds a URL in the mapping.
CacheHitNever(cached, url) == FALSE

\* line 194: if (cached[url]).
CacheHit(cached, url) == Present(cached[url])

\* A variant that requests every page still missing at once.
RECURSIVE RunLoopFanOut(_)
RunLoopFanOut(c) ==
    IF c.i > Len(c.detailLinks) THEN [c EXCEPT !.at = "save"]
    ELSE LET url == Url(c.detailLinks[c.i])
             missing == SelectSeq(SubSeq(c.detailLinks, c.i, Len(c.detailLinks)),
                                  LAMBDA l : ~CacheHit(c.cached, Url(l)))
         IN  IF CacheHit(c.cached, url)
             THEN LET c2 == ReuseCached(c, url)
                  IN  IF c2.at = "threw" THEN c2 ELSE RunLoopFanOut(c2)
             ELSE [c EXCEPT !.at = "detail",
                            !.trace = @ \o [k \in 1..Len(missing) |->
                                               Event("fetch", Url(missing[k]))]]

\* lines 191-234, from link i up to the next await (a detail fetch), the end
\* of the loop, or a throw.
RECURSIVE RunLoop(_)
RunLoop(c) ==
    IF c.i > Len(c.detailLinks) THEN [c EXCEPT !.at = "save"]
    ELSE LET url == Url(c.detailLinks[c.i])
         IN  IF CacheHit(c.cached, url)
             THEN LET c2 == ReuseCached(c, url)
                  IN  IF c2.at = "threw" THEN c2 ELSE RunLoop(c2)
             ELSE [c EXCEPT !.at = "detail", !.trace = Append(@, Event("fetch", url))]

\* A variant that keeps only the records of the links just discovered.
OnSearchPagePruning(c, html, fs) ==
    LET cache == LoadCache(fs, c.name)
        links == ExtractDetailLinks(html)
        listed == {Url(links[k]) : k \in 1..Len(links)}
        cached == IF cache.hasDetailCache
                  THEN [u \in URLs |-> IF u \in listed THEN cache.detailCache[u] ELSE NoVal]
                  ELSE EmptyMap
    IN  RunLoop([c EXCEPT !.searchHtml = html, !.detailLinks = links,
                          !.cached = cached, !.loaded = cached,
                          !.trace = Append(@, Event("load", SafeName(c.name)))])

\* A variant that goes through the cached links when the page lists none.
OnSearchPageFallsBack(c, html, fs) ==
    LET cache == LoadCache(fs, c.name)
        cached == IF cache.hasDetailCache THEN cache.detailCache ELSE EmptyMap
        found == ExtractDetailLinks(html)
        known == IF Present(cached[Url(LinkA)]) THEN <<LinkA>> ELSE <<>>
    IN  RunLoop([c EXCEPT !.searchHtml = html,
                          !.detailLinks = IF found = <<>> THEN known ELSE found,
                          !.cached = cached, !.loaded = cached,
                          !.trace = Append(@, Event("load", SafeName(c.name)))])

\* lines 179-190: the search page has arrived.
OnSearchPage(c, html, fs) ==
    LET cache == LoadCache(fs, c.name)
        cached == IF cache.hasDetailCache THEN cache.detailCache ELSE EmptyMap
    IN  RunLoop([c EXCEPT !.searchHtml = html, !.detailLinks = ExtractDetailLinks(html),
                          !.cached = cached, !.loaded = cached,
                          !.trace = Append(@, Event("load", SafeName(c.name)))])

DetailError(message) == [error |-> <<"Error processing detail page: ", message>>]

\* A variant that keeps the error entry of a failed fetch in the mapping.
OnDetailPageKeepsError(c, fetched) ==
    LET url == Url(c.detailLinks[c.i])
        entry == IF ~fetched.threw
                 THEN SetProp(ParseDetail(fetched.text), "detailUrl", url)
                 ELSE SetProp(DetailError(fetched.message), "status", "")
        c1 == [c EXCEPT !.details = Append(@, entry), !.cached[url] = entry]
    IN  RunLoop([(IF fetched.threw THEN c1 ELSE Account(c1, entry)) EXCEPT !.i = c.i + 1])

\* A variant that requests the page again when its fetch has failed.
OnDetailPageRetrying(c, fetched) ==
    LET url == Url(c.detailLinks[c.i])
    IN  IF ~fetched.threw
        THEN LET info == SetProp(ParseDetail(fetched.text), "detailUrl", url)
                 c1 == [c EXCEPT !.details = Append(@, info), !.cached[url] = info]
             IN  RunLoop([Account(c1, info) EXCEPT !.i = c.i + 1])
        ELSE [c EXCEPT !.trace = Append(@, Event("fetch", url))]

\* lines 213-233: the answer to the detail fetch of link i has arrived.
OnDetailPage(c, fetched) ==
    LET url == Url(c.detailLinks[c.i])
    IN  IF ~fetched.threw
        THEN LET info == SetProp(ParseDetail(fetched.text), "detailUrl", url)
                 c1 == [c EXCEPT !.details = Append(@, info), !.cached[url] = info]
             IN  RunLoop([Account(c1, info) EXCEPT !.i = c.i + 1])
        ELSE RunLoop([c EXCEPT !.details = Append(@, DetailError(fetched.message)),
                               !.i = c.i + 1])

\* lines 238-249.
Score(hasLive, hasRedMark) ==
    IF ~hasLive THEN "Green" ELSE IF hasRedMark THEN "Red" ELSE "Yellow"

Explanation(hasLive, hasRedMark) ==
    IF ~hasLive THEN "No live trademark registrations were found for this name."
    ELSE IF hasRedMark THEN "At least one live filing lists classes 009, 028 or 041."
    ELSE "Live filings exist, but none contain 009, 028 or 041."

\* A variant that also counts the live records held in the mapping.
SearchResultOverStore(c) ==
    LET live == c.hasLive \/ \E u \in URLs : Present(c.cached[u]) /\ c.cached[u].status = "LIVE"
    IN  [ score |-> Score(live, c.hasRedMark),
          explanation |-> Explanation(live, c.hasRedMark),
          details |-> c.details ]

\* lines 250-254.
SearchResult(c) ==
    [ score |-> Score(c.hasLive, c.hasRedMark),
      explanation |-> Explanation(c.hasLive, c.hasRedMark),
      details |-> c.details ]

ErrorResult(message) == [error |-> message]

\* ---- the processName without cache, lines 482-529.  Nothing is shared
\* between its awaits but its own locals, so it is a function of the
\* responses it gets.
RECURSIVE LoopNoCache(_, _, _)
LoopNoCache(c, links, responses) ==
    IF links = <<>> THEN c
    ELSE LET url == Url(Head(links))
             fetched == FetchPage(url, responses[Head(links)])
             c1 == IF fetched.threw
                   THEN [c EXCEPT !.details = Append(@, DetailError(fetched.message))]
                   ELSE LET info == SetProp(ParseDetailNoCache(fetched.text), "detailUrl", url)
                        IN  Account([c EXCEPT !.details = Append(@, info)], info)
         IN  LoopNoCache(c1, Tail(links), responses)
ProcessNameNoCache(name, searchResponse, responses) ==
    LET fetched == FetchPage(SearchUrl(name), searchResponse)
    IN  IF fetched.threw THEN ErrorResult(fetched.message)
        ELSE SearchResult(LoopNoCache([details |-> <<>>, hasLive |-> FALSE, hasRedMark |-> FALSE],
                                      ExtractDetailLinks(fetched.text), responses))

\* A variant in which a failed write makes the call fail.
FinishFailsWithSave(c, fs, writeOk) ==
    IF c.at = "threw" \/ ~writeOk
    THEN [value |-> ErrorResult(IF c.at = "threw" THEN c.err ELSE <<"Error writing cache file">>),
          files |-> fs,
          c |-> IF c.at = "threw" THEN c
                ELSE [c EXCEPT !.at = "returned",
                               !.trace = Append(@, Event("save", SafeName(c.name)))]]
    ELSE [value |-> SearchResult(c),
          files |-> SaveCache(fs, c.name,
                              [hasDetailCache |-> TRUE, detailCache |-> c.cached], writeOk),
          c |-> [c EXCEPT !.at = "returned",
                          !.trace = Append(@, Event("save", SafeName(c.name)))]]

\* The end of a call whose loop is over (line 236 onwards) or that threw:
\* the value the batch loop stores, the files, and the finished locals.
Finish(c, fs, writeOk) ==
    IF c.at = "threw"
    THEN [value |-> ErrorResult(c.err), files |-> fs, c |-> c]
    ELSE [value |-> SearchResult(c),
          files |-> SaveCache(fs, c.name,
                              [hasDetailCache |-> TRUE, detailCache |-> c.cached], writeOk),
          c |-> [c EXCEPT !.at = "returned",
                          !.trace = Append(@, Event("save", SafeName(c.name)))]]

\* ------------------------------------------------- the /api/search handler
\* The names field: the pieces between its runs of commas and newlines.  The
\* string is empty exactly when it is the single empty piece.
Pieces == Names \cup {" "}
Trim(piece) == IF piece = " " THEN "" ELSE piece

Bodies ==
    {[kind |-> "badjson"], [kind |-> "nonames"],
     [kind |-> "notstring", pieces |-> <<"acme">>]}      \* names: ["acme"]
    \cup {[kind |-> "names", pieces |-> ps] : ps \in (SeqsUpTo(Pieces, MaxBatch) \ {<<>>}) \cup {<<"">>}}

\* lines 308-311: split, trim, filter(Boolean).
SplitNames(pieces) ==
    SelectSeq([k \in 1..Len(pieces) |-> Trim(pieces[k])], LAMBDA x : x # "")

\* A variant that turns a names field of another type into a string.
BadNamesCoercing(body) == body.kind = "nonames" \/ body.pieces = <<"">>

\* line 300: !names || typeof names !== 'string'.
BadNames(body) == body.kind # "names" \/ body.pieces = <<"">>

EmptyResult == [n \in Names |-> NoVal]

\* lines 316 and 318: result[n] = value on a plain object.  Assigning to
\* "__proto__" sets the prototype and creates no property of the object.
AssignResult(result, n, value) ==
    IF n = "__proto__" THEN result ELSE [result EXCEPT ![n] = value]

Respond(r, status, body) ==
    [r EXCEPT !.pc = "done", !.status = status, !.response = body]

\* lines 313-325: the batch loop after one call has ended with `value`.
Continue(r, value, ep) ==
    LET r1 == [r EXCEPT !.result = AssignResult(@, r.list[r.idx], value),
                        !.idx = @ + 1]
    IN  IF r1.idx > Len(r1.list)
        THEN [req |-> Respond(r1, 200, r1.result), call |-> IdleCall]
        ELSE [req |-> r1, call |-> NewCall(r1.list[r1.idx], ep)]

Summary(p, c, value, saveOk, ep) ==
    [ proc |-> p, name |-> c.name, at |-> c.at, value |-> value,
      searchHtml |-> c.searchHtml, detailLinks |-> c.detailLinks, details |-> c.details,
      loaded |-> c.loaded, cached |-> c.cached, trace |-> c.trace,
      saveOk |-> saveOk, epoch0 |-> c.epoch0, epoch1 |-> ep ]

Remember(h, sm) ==
    [h EXCEPT ![sm.name] = IF Len(@) = 2 THEN <<@[2], sm>> ELSE Append(@, sm)]

\* A processName call of handler p has ended.
CallEnds(p, c, writeOk) ==
    LET fin == Finish(c, files, writeOk)
        next == Continue(req[p], fin.value, epoch)
    IN  /\ files' = fin.files
        /\ req' = [req EXCEPT ![p] = next.req]
        /\ call' = [call EXCEPT ![p] = next.call]
        /\ hist' = Remember(hist, Summary(p, fin.c, fin.value, writeOk, epoch))

\* ------------------------------------------------------------------ actions
\* lines 289-315: a POST /api/search arrives at a free handler and runs up
\* to the first search fetch.
Request(p, body) ==
    /\ req[p].pc \in {"idle", "done"}
    /\ UNCHANGED <<search, detail, epoch, files, hist, markup, parsed, client>>
    /\ IF body.kind = "badjson"
       THEN /\ req' = [req EXCEPT ![p] =
                         [pc |-> "done", list |-> <<>>, idx |-> 1, result |-> EmptyResult,
                          status |-> 400, response |-> ErrorResult(<<"Invalid JSON body.">>)]]
            /\ UNCHANGED <<call, ncalls>>
       ELSE IF BadNames(body)
       THEN /\ req' = [req EXCEPT ![p] =
                         [pc |-> "done", list |-> <<>>, idx |-> 1, result |-> EmptyResult,
                          status |-> 400,
                          response |-> ErrorResult(<<"Missing or invalid \"names\" field.">>)]]
            /\ UNCHANGED <<call, ncalls>>
       ELSE LET list == SplitNames(body.pieces)
                r == [pc |-> "busy", list |-> list, idx |-> 1, result |-> EmptyResult,
                      status |-> 0, response |-> NoVal]
            IN  /\ ncalls + Len(list) <= MaxCalls
                /\ ncalls' = ncalls + Len(list)
                /\ IF list = <<>>
                   THEN /\ req' = [req EXCEPT ![p] = Respond(r, 200, r.result)]
                        /\ UNCHANGED call
                   ELSE /\ req' = [req EXCEPT ![p] = r]
                        /\ call' = [call EXCEPT ![p] = NewCall(list[1], epoch)]

\* line 178: the answer to the search fetch arrives.
SearchResponse(p, writeOk) ==
    /\ call[p].at = "search"
    /\ UNCHANGED <<search, detail, epoch, ncalls, markup, parsed, client>>
    /\ LET c == call[p]
           fetched == FetchPage(SearchUrl(c.name), search[c.name])
       IN  IF fetched.threw
           THEN CallEnds(p, [c EXCEPT !.at = "threw", !.err = fetched.message], writeOk)
           ELSE LET c1 == OnSearchPage(c, fetched.text, files)
                IN  IF c1.at = "detail"
                    THEN /\ call' = [call EXCEPT ![p] = c1]
                         /\ UNCHANGED <<files, req, hist>>
                    ELSE CallEnds(p, c1, writeOk)

\* line 214: the answer to a detail fetch arrives.
DetailResponse(p, writeOk) ==
    /\ call[p].at = "detail"
    /\ UNCHANGED <<search, detail, epoch, ncalls, markup, parsed, client>>
    /\ LET c == call[p]
           rel == c.detailLinks[c.i]
           c1 == OnDetailPage(c, FetchPage(Url(rel), detail[rel]))
       IN  IF c1.at = "detail"
           THEN /\ call' = [call EXCEPT ![p] = c1]
                /\ UNCHANGED <<files, req, hist>>
           ELSE CallEnds(p, c1, writeOk)

\* The registry changes: a search page or a detail page answers differently.
SearchChanges(n, resp) ==
    /\ epoch < MaxChanges
    /\ resp # search[n]
    /\ search' = [search EXCEPT ![n] = resp]
    /\ epoch' = epoch + 1
    /\ UNCHANGED <<detail, files, req, call, hist, ncalls, markup, parsed, client>>

DetailChanges(l, resp) ==
    /\ epoch < MaxChanges
    /\ resp # detail[l]
    /\ detail' = [detail EXCEPT ![l] = resp]
    /\ epoch' = epoch + 1
    /\ UNCHANGED <<search, files, req, call, hist, ncalls, markup, parsed, client>>

\* ----------------------------------------------------------- specifications
Quiet ==
    /\ epoch = 0
    /\ call = [p \in Procs |-> IdleCall]
    /\ hist = [n \in Names |-> <<>>]
    /\ ncalls = 0
    /\ markup = <<>>
    /\ parsed = NotCalled
    /\ client = NoClient

\* The server with both handlers, started on an empty cache directory.
Init ==
    /\ Quiet
    /\ search = [n \in Names |-> Ok(<<LinkA, LinkB>>)]
    /\ detail = [l \in Links |-> IF l = LinkA THEN Ok(PageYellow) ELSE HttpError(503)]
    /\ files = [k \in Keys |-> AbsentFile]
    /\ req = [p \in Procs |-> IdleReq]

Next ==
    \/ \E p \in Procs, body \in Bodies : Request(p, body)
    \/ \E p \in Procs, writeOk \in BOOLEAN : SearchResponse(p, writeOk)
    \/ \E p \in Procs, writeOk \in BOOLEAN : DetailResponse(p, writeOk)
    \/ \E n \in Names, resp \in SearchResponses : SearchChanges(n, resp)
    \/ \E l \in Links, resp \in DetailResponses : DetailChanges(l, resp)

Spec == Init /\ [][Next]_vars

\* ---------------------------------------------- the parsing functions alone
SearchTokens == {LinkA, LinkB, LinkUpper, LinkNoId, SearchPath}
StatusTokens == {" ", "LIVE", "live", "DEAD", "<td>", "Class 009"}
CellTokens == {"Acme", "Sydney", " ", "->", "U+2192", "<div>", "</div>"}
OwnerMarkup(cell) == <<"<owner>">> \o cell \o <<"</td>">>
Markups ==
    SeqsUpTo(SearchTokens, MaxMarkup) \cup SeqsUpTo(StatusTokens, MaxMarkup)
       \cup {OwnerMarkup(cell) : cell \in SeqsUpTo(CellTokens, MaxCell)}

\* The server is not serving.
Idle ==
    /\ epoch = 0
    /\ call = [p \in Procs |-> IdleCall]
    /\ hist = [n \in Names |-> <<>>]
    /\ ncalls = 0
    /\ search = [n \in Names |-> Ok(<<>>)]
    /\ detail = [l \in Links |-> HttpError(503)]
    /\ files = [k \in Keys |-> AbsentFile]
    /\ req = [p \in Procs |-> [pc |-> "off"]]
Server == <<search, detail, epoch, files, req, call, hist, ncalls>>

CallExtractDetailLinks ==
    /\ parsed = NotCalled
    /\ parsed' = [fn |-> "extractDetailLinks", value |-> ExtractDetailLinks(markup)]
    /\ UNCHANGED <<Server, markup, client>>
CallParseDetail ==
    /\ parsed = NotCalled
    /\ parsed' = [fn |-> "parseDetail", value |-> ParseDetail(markup)]
    /\ UNCHANGED <<Server, markup, client>>
CallParseDetailNoCache ==
    /\ parsed = NotCalled
    /\ parsed' = [fn |-> "parseDetailNoCache", value |-> ParseDetailNoCache(markup)]
    /\ UNCHANGED <<Server, markup, client>>

InitParse ==
    /\ Idle
    /\ markup \in Markups
    /\ parsed = NotCalled
    /\ client = NoClient
NextParse == CallExtractDetailLinks \/ CallParseDetail \/ CallParseDetailNoCache
SpecParse == InitParse /\ [][NextParse]_vars

\* One request at a time (the second handler never serves), started on a
\* cache directory that earlier runs may have left behind.
InitSeq ==
    /\ Quiet
    /\ \E s \in {Ok(<<LinkA, LinkB>>), Ok(<<LinkB, LinkA, LinkB>>)} :
          search = [n \in Names |-> s]
    /\ detail \in { [l \in Links |-> IF l = LinkA THEN Ok(PageYellow) ELSE HttpError(503)],
                    [l \in Links |-> IF l = LinkA THEN Ok(PageRed) ELSE Ok(PageDead)],
                    [l \in Links |-> IF l = LinkA THEN Ok(PageRed) ELSE Ok(PageYellow)] }
    /\ \E f \in InitFiles :
          files = [k \in Keys |-> IF k = SafeName("acme") THEN f ELSE AbsentFile]
    /\ req = [p \in Procs |-> IF p = "r1" THEN IdleReq ELSE [pc |-> "off"]]

SpecSeq == InitSeq /\ [][Next]_vars

\* The server of Spec when every fetch that was issued is answered in the
\* end, with a page or with a failure: weak fairness of the answers to
\* each handler, which are enabled exactly while its call awaits a fetch.
Answer(p) ==
    \E writeOk \in BOOLEAN : SearchResponse(p, writeOk) \/ DetailResponse(p, writeOk)
Awaiting(p) == call[p].at \in {"search", "detail"}
Fairness ==
    \A p \in Procs : []<>(~Awaiting(p)) \/ []<><<Answer(p)>>_vars
SpecLive == Init /\ [][Next]_vars /\ Fairness

\* ------------------------------------------------------- the page (client)
\* The page as far as it talks to the server: the chips, the text in the
\* input, prefetchCache and the state of handleSearch.  The server is a
\* black box that answers a request with a result or an error object per
\* name it was given, or fails as a whole.
ChipNames == {"acme", "bravo", "__proto__"}
OrdinaryNames == ChipNames \ {"__proto__"}

\* prefetchCache, a plain object used as a map: its own properties (a name
\* maps to "absent", null, a result or an {error} object) and its prototype,
\* which is what reading or writing the key "__proto__" reaches.
EmptyCache == [own |-> [n \in OrdinaryNames |-> "absent"], proto |-> "Object.prototype"]
HasOwn(cache, n) == n \in OrdinaryNames /\ cache.own[n] # "absent"
Truthy(cache, n) ==
    IF n = "__proto__" THEN cache.proto # "null"
    ELSE cache.own[n] \in {"result", "error"}
\* { ...prev }: the own properties on a fresh object.
Spread(cache) == [cache EXCEPT !.proto = "Object.prototype"]
\* updated[name] = value
Assign(cache, n, value) ==
    IF n = "__proto__"
    THEN [cache EXCEPT !.proto = IF value = "result" THEN "Object.prototype" ELSE value]
    ELSE [cache EXCEPT !.own[n] = value]
RECURSIVE AssignAll(_, _, _)
AssignAll(cache, names, value) ==
    IF names = <<>> THEN cache
    ELSE AssignAll(Assign(cache, Head(names), value), Tail(names), value)

NoResults == [shown |-> FALSE]
NewClient ==
    [ open |-> TRUE, chips |-> <<>>, inputValue |-> "", prefetchCache |-> EmptyCache,
      loading |-> FALSE, error |-> FALSE, results |-> NoResults, sent |-> <<>>,
      inflight |-> {} ]

\* fetch('/api/search', ...) with the names joined by newlines.
Post(cl, kind, names, list) ==
    [cl EXCEPT !.sent = Append(@, [kind |-> kind, names |-> names, list |-> list]),
               !.inflight = @ \cup {Len(cl.sent) + 1}]

\* part_000, lines 333-360: the effect that runs when chips has changed.
PrefetchEffect(cl) ==
    LET namesToFetch == SelectSeq(cl.chips, LAMBDA chip : ~HasOwn(cl.prefetchCache, chip))
    IN  IF namesToFetch = <<>> THEN cl
        ELSE Post([cl EXCEPT !.prefetchCache = AssignAll(Spread(@), namesToFetch, "null")],
                  "prefetch", namesToFetch, <<>>)

\* The render after a handler, and the effect if chips is another array.
Rendered(before, cl) == IF cl.chips # before.chips THEN PrefetchEffect(cl) ELSE cl
Page(cl) ==
    /\ Len(cl.sent) <= MaxRequests
    /\ client' = cl
    /\ UNCHANGED <<Server, markup, parsed>>

\* lines 178-180 (handleInputChange): the text in the input is now val.
HandleInputChange(val) ==
    /\ client.open
    /\ client.inputValue # val
    /\ Page([client EXCEPT !.inputValue = val])

\* lines 78-89 (finalizeInput): the text becomes a chip unless it is one.
Finalized(cl) ==
    IF cl.inputValue = "" THEN cl
    ELSE [cl EXCEPT !.chips = IF \E k \in 1..Len(@) : @[k] = cl.inputValue
                              THEN @ ELSE Append(@, cl.inputValue),
                    !.inputValue = ""]

\* Enter or comma with text in the input (lines 156-163), or blur (183-185).
FinalizeInput ==
    /\ client.open
    /\ client.inputValue # ""
    /\ Page(Rendered(client, Finalized(client)))

\* lines 293-305 (handleChipRemove).
HandleChipRemove(index) ==
    /\ client.open
    /\ index \in 1..Len(client.chips)
    /\ Page(Rendered(client, [client EXCEPT !.chips =
                                 SubSeq(@, 1, index - 1) \o SubSeq(@, index + 1, Len(@))]))

\* What JSON.stringify(result) of the server has a key for (server.js,
\* lines 312-325).
ResponseKeys(names) == {names[k] : k \in 1..Len(names)} \ {"__proto__"}

\* lines 576-585: combined[name] = the cached or the fetched value of a name
\* of the list that has one; the key "__proto__" sets the prototype.
Combined(list, cached, data) ==
    [shown |-> TRUE,
     names |-> {n \in {list[k] : k \in 1..Len(list)} :
                   /\ n \in cached \/ n \in data \/ n = "__proto__"
                   /\ n # "__proto__"}]

\* lines 535-560 (handleSearch up to its await), started by the button,
\* which is disabled while loading, or by Enter in the empty input (165-172).
\* chips and prefetchCache are those of the render the handler belongs to.
HandleSearch(via) ==
    /\ client.open
    /\ via = "button" => ~client.loading
    /\ via = "enter" => client.inputValue = ""
    /\ client.chips # <<>> \/ client.inputValue # ""
    /\ LET list == client.chips
           namesToFetch == SelectSeq(list, LAMBDA n : ~Truthy(client.prefetchCache, n))
           cached == {n \in ChipNames : Truthy(client.prefetchCache, n)}
           cl == Finalized(client)
       IN  IF list = <<>> THEN Page(Rendered(client, cl))
           ELSE IF namesToFetch = <<>>
           THEN Page(Rendered(client, [cl EXCEPT !.loading = FALSE, !.error = FALSE,
                                                  !.results = Combined(list, cached, {})]))
           ELSE Page(Rendered(client, Post([cl EXCEPT !.loading = TRUE, !.error = FALSE,
                                                      !.results = NoResults],
                                           "search", namesToFetch, list)))

\* The names the handleSearch of a request found in prefetchCache.
CachedFor(rq) ==
    {rq.list[k] : k \in 1..Len(rq.list)} \ {rq.names[k] : k \in 1..Len(rq.names)}

\* lines 561-590: the request of a handleSearch is answered.
SearchSettles(id, ok) ==
    /\ client.open
    /\ id \in client.inflight /\ client.sent[id].kind = "search"
    /\ LET rq == client.sent[id]
           cl == [client EXCEPT !.inflight = @ \ {id}, !.loading = FALSE]
       IN  IF ok
           THEN Page([cl EXCEPT !.prefetchCache = AssignAll(Spread(@), rq.names, "result"),
                                !.results = Combined(rq.list, CachedFor(rq),
                                                     ResponseKeys(rq.names))])
           ELSE Page([cl EXCEPT !.error = TRUE])

\* A variant that shows what has been prefetched.
PrefetchSettlesShowing(id, ok) ==
    /\ client.open
    /\ id \in client.inflight /\ client.sent[id].kind = "prefetch"
    /\ Page([client EXCEPT !.inflight = @ \ {id},
                           !.results = [shown |-> TRUE,
                                        names |-> ResponseKeys(client.sent[id].names)],
                           !.prefetchCache =
                              AssignAll(Spread(@), client.sent[id].names,
                                        IF ok THEN "result" ELSE "error")])

\* lines 361-383: the request of the prefetch effect is answered.
PrefetchSettles(id, ok) ==
    /\ client.open
    /\ id \in client.inflight /\ client.sent[id].kind = "prefetch"
    /\ Page([client EXCEPT !.inflight = @ \ {id},
                           !.prefetchCache =
                              AssignAll(Spread(@), client.sent[id].names,
                                        IF ok THEN "result" ELSE "error")])

InitClient ==
    /\ Idle
    /\ markup = <<>>
    /\ parsed = NotCalled
    /\ client = NewClient
NextClient ==
    \/ \E val \in ChipNames \cup {""} : HandleInputChange(val)
    \/ FinalizeInput
    \/ \E index \in 1..Cardinality(ChipNames) : HandleChipRemove(index)
    \/ \E via \in {"button", "enter"} : HandleSearch(via)
    \/ \E id \in 1..MaxRequests, ok \in BOOLEAN : SearchSettles(id, ok)
    \/ \E id \in 1..MaxRequests, ok \in BOOLEAN : PrefetchSettles(id, ok)
SpecClient == InitClient /\ [][NextClient]_vars

\* --------------------------------------------------- the chip input
\* The page as far as the chip input goes: chips, the text in the input,
\* the selection and the mouse state, with the own keys of prefetchCache
\* and the names field the prefetch effect posted in the last step.  A text
\* is the sequence of its characters.  The answers to the requests and the
\* state of handleSearch are those of SpecClient.  gesture records what the
\* mouse has done since its button went down on a chip, and whether the
\* mouse alone has acted since; the page has no handler for a button that
\* comes up outside the input container.
Undefined == <<"undefined">>                 \* inputValue after chips[index] of no chip
Null == 0 - 1                                \* useState(null)
NoGesture == [on |-> FALSE]
NotPosted == [posted |-> FALSE]
NewChipInput ==
    [ open |-> TRUE, chips |-> <<>>, inputValue |-> <<>>, selectedIndices |-> {},
      dragSelecting |-> FALSE, mouseDownFlag |-> FALSE, mouseDownIndex |-> Null,
      prefetched |-> {}, names |-> NotPosted, gesture |-> NoGesture ]

Indices(chips) == 0..(Len(chips) - 1)
\* prev.filter((_, idx) => Kept(idx))
Filter(chips, Kept(_)) ==
    LET F[k \in 0..Len(chips)] ==
            IF k = 0 THEN <<>>
            ELSE IF Kept(k - 1) THEN Append(F[k - 1], chips[k]) ELSE F[k - 1]
    IN  F[Len(chips)]
Includes(chips, val) == \E k \in 1..Len(chips) : chips[k] = val

\* split(/[\n,]+/).map(s => s.trim()).filter(Boolean), of the server
\* (server.js, lines 308-311) and of handleInputPaste (lines 212-215).
SplitList(text) ==
    LET pieces == SplitAt(text, {",", "\n"})
    IN  SelectSeq([k \in 1..Len(pieces) |-> TrimText(pieces[k])], LAMBDA piece : piece # <<>>)
\* names: namesToFetch.join('\n')
NamesField(list) == Join(list, "\n")

\* lines 333-360: the prefetch effect, as far as the request goes.
ChipEffect(cl) ==
    LET namesToFetch == SelectSeq(cl.chips, LAMBDA chip : chip \notin cl.prefetched)
    IN  IF namesToFetch = <<>> THEN [cl EXCEPT !.names = NotPosted]
        ELSE [cl EXCEPT !.prefetched = @ \cup {namesToFetch[k] : k \in 1..Len(namesToFetch)},
                        !.names = [posted |-> TRUE, list |-> namesToFetch,
                                   field |-> NamesField(namesToFetch)]]
\* A key or a paste while the button is down.
Keyboard(cl) == IF cl.gesture.on THEN [cl EXCEPT !.gesture.mouseOnly = FALSE] ELSE cl
ChipPage(cl) ==
    /\ Len(cl.chips) <= MaxChips
    /\ Len(cl.inputValue) <= MaxInput
    /\ client' = ChipEffect(cl)
    /\ UNCHANGED <<Server, markup, parsed>>

\* lines 63-70 (removeSelectedChips).
RemoveSelectedChips(cl) ==
    IF cl.selectedIndices = {} THEN cl
    ELSE [cl EXCEPT !.chips = Filter(@, LAMBDA idx : idx \notin cl.selectedIndices),
                    !.selectedIndices = {}]

\* A variant that adds the text also when it is a chip already.
ChipFinalizedTwice(cl) ==
    LET val == TrimText(cl.inputValue)
    IN  IF cl.inputValue = Undefined \/ val = <<>> THEN cl
        ELSE [cl EXCEPT !.chips = Append(@, val), !.inputValue = <<>>]

\* lines 78-89 (finalizeInput) on texts; undefined.trim() throws.
ChipFinalized(cl) ==
    LET val == TrimText(cl.inputValue)
    IN  IF cl.inputValue = Undefined \/ val = <<>> THEN cl
        ELSE [cl EXCEPT !.chips = IF Includes(@, val) THEN @ ELSE Append(@, val),
                        !.inputValue = <<>>]

\* What the browser does with a key the handler has not prevented: a
\* character goes to the end of the text, Backspace takes the last one
\* (handleInputChange, lines 178-180).
TypedKeys == {"a", " "}
DefaultAction(cl, key, ctrl) ==
    IF ~ctrl /\ key \in TypedKeys THEN [cl EXCEPT !.inputValue = Append(@, key)]
    ELSE IF ~ctrl /\ key = "Backspace" /\ cl.inputValue # <<>>
    THEN [cl EXCEPT !.inputValue = SubSeq(@, 1, Len(@) - 1)]
    ELSE cl

\* lines 96-173 (handleInputKeyDown); the search that Enter starts in the
\* empty input is HandleSearch("enter").
KeyDown(cl, key, ctrl) ==
    IF cl.selectedIndices # {} /\ ~ctrl /\ key \in {"Backspace", "Delete"}
    THEN RemoveSelectedChips(cl)
    ELSE IF cl.selectedIndices # {} /\ ~ctrl /\ key \in {"a", " ", ","}
    THEN [RemoveSelectedChips(cl) EXCEPT !.inputValue = <<key>>]
    ELSE IF key = "Backspace" /\ cl.inputValue = Undefined THEN cl
    ELSE IF key = "Backspace" /\ TrimText(cl.inputValue) = <<>> /\ cl.chips # <<>>
    THEN [cl EXCEPT !.chips = SubSeq(@, 1, Len(@) - 1)]
    ELSE IF ctrl /\ key = "a"
    THEN IF cl.inputValue = Undefined THEN cl
         ELSE [cl EXCEPT !.selectedIndices = Indices(cl.chips), !.dragSelecting = FALSE]
    ELSE IF key \in {"Enter", ","}
    THEN IF cl.inputValue = Undefined THEN cl
         ELSE IF TrimText(cl.inputValue) # <<>>
         THEN [ChipFinalized(cl) EXCEPT !.selectedIndices = {}]
         ELSE IF key = "Enter" THEN [cl EXCEPT !.selectedIndices = {}]
         ELSE cl
    ELSE DefaultAction(cl, key, ctrl)

\* A key goes down in the input.  What Ctrl+Backspace removes from a text
\* and what the input shows while inputValue is undefined are the
\* browser's: those inputs are left out.
HandleInputKeyDown(key, ctrl) ==
    /\ client.open
    /\ (ctrl /\ key = "Backspace") =>
          client.inputValue # Undefined /\ TrimText(client.inputValue) = <<>>
    /\ client.inputValue = Undefined => key \notin TypedKeys \/ ctrl \/ client.selectedIndices # {}
    /\ KeyDown(client, key, ctrl) # client
    /\ ChipPage(Keyboard(KeyDown(client, key, ctrl)))

\* lines 188-190 (handleInputBlur).
HandleInputBlur ==
    /\ client.open
    /\ ChipFinalized(client) # client
    /\ ChipPage(ChipFinalized(client))

\* The texts that are pasted.
Pastes ==
    { <<"a">>, <<"a", ",", "a">>, <<" ", "a", "\n", "a", "a", " ">>, <<",", "\n">>, <<" ">> }
\* lines 218-229: the parts that are no chip yet, each once, in order.
RECURSIVE NewChips(_, _)
NewChips(existing, parts) ==
    IF parts = <<>> THEN <<>>
    ELSE IF Includes(existing, Head(parts)) THEN NewChips(existing, Tail(parts))
    ELSE <<Head(parts)>> \o NewChips(Append(existing, Head(parts)), Tail(parts))
\* lines 200-232 (handleInputPaste).
HandleInputPaste(pasted) ==
    /\ client.open
    /\ client.inputValue # Undefined
    /\ LET cl == ChipFinalized(client)
           parts == SplitList(pasted)
       IN  IF parts = <<>> THEN cl # client /\ ChipPage(Keyboard(cl))
           ELSE ChipPage(Keyboard([cl EXCEPT !.chips = @ \o NewChips(@, parts),
                                             !.inputValue = <<>>]))

\* lines 240-244 (handleChipMouseDown), the left button on a chip.
HandleChipMouseDown(index) ==
    /\ client.open
    /\ ~client.gesture.on
    /\ index \in Indices(client.chips)
    /\ ChipPage([client EXCEPT !.mouseDownFlag = TRUE, !.mouseDownIndex = index,
                               !.gesture = [on |-> TRUE, pressed |-> index, entered |-> {},
                                            mouseOnly |-> TRUE]])

\* lines 252-266 (handleChipMouseEnter).
HandleChipMouseEnter(index) ==
    /\ client.open
    /\ index \in Indices(client.chips)
    /\ client.mouseDownFlag
    /\ LET cl == IF client.gesture.on
                 THEN [client EXCEPT !.gesture.entered = @ \cup {index}] ELSE client
       IN  IF ~client.dragSelecting
           THEN ChipPage([cl EXCEPT !.dragSelecting = TRUE,
                                    !.selectedIndices = {client.mouseDownIndex, index}])
           ELSE ChipPage([cl EXCEPT !.selectedIndices = @ \cup {index}])

\* lines 312-322 (handleChipEdit).
ChipEdited(cl, index) ==
    [cl EXCEPT !.chips = Filter(@, LAMBDA i : i # index),
               !.inputValue = IF index \in Indices(cl.chips) THEN cl.chips[index + 1]
                              ELSE Undefined]
\* lines 275-287 (handleChipMouseUp).
ChipMouseUp(cl, index) ==
    IF ~cl.mouseDownFlag THEN cl
    ELSE IF cl.dragSelecting
    THEN [cl EXCEPT !.mouseDownFlag = FALSE, !.dragSelecting = FALSE]
    ELSE [ChipEdited(cl, index) EXCEPT !.mouseDownFlag = FALSE, !.selectedIndices = {}]

\* lines 403-407: the button comes up on a chip.
HandleChipMouseUp(index) ==
    /\ client.open
    /\ index \in Indices(client.chips)
    /\ client.mouseDownFlag
    /\ ChipPage([ChipMouseUp(client, index) EXCEPT !.gesture = NoGesture])

\* lines 445-449: the button comes up in the container beside the chips.
ContainerMouseUp ==
    /\ client.open
    /\ client.mouseDownFlag
    /\ ChipPage([ChipMouseUp(client, client.mouseDownIndex) EXCEPT !.gesture = NoGesture])

\* The button comes up outside the container: no handler runs.
ReleaseOutside ==
    /\ client.open
    /\ client.gesture.on
    /\ ChipPage([client EXCEPT !.gesture = NoGesture])

\* lines 437-443: a click in the container.
ContainerClick ==
    /\ client.open
    /\ ~client.gesture.on
    /\ client.selectedIndices # {}
    /\ ChipPage([client EXCEPT !.selectedIndices = {}])

\* lines 293-305 (handleChipRemove), a click on the close button of a chip.
ChipRemoveClicked(index) ==
    /\ client.open
    /\ ~client.gesture.on
    /\ index \in Indices(client.chips)
    /\ ChipPage([client EXCEPT
          !.chips = Filter(@, LAMBDA i : i # index),
          !.selectedIndices = {IF i > index THEN i - 1 ELSE i : i \in @ \ {index}}])

KeyNames == TypedKeys \cup {",", "Enter", "Backspace", "Delete"}
InitChips ==
    /\ Idle
    /\ markup = <<>>
    /\ parsed = NotCalled
    /\ client = NewChipInput
NextChips ==
    \/ \E key \in KeyNames, ctrl \in BOOLEAN : HandleInputKeyDown(key, ctrl)
    \/ HandleInputBlur
    \/ \E pasted \in Pastes : HandleInputPaste(pasted)
    \/ \E index \in 0..MaxChips : HandleChipMouseDown(index)
    \/ \E index \in 0..MaxChips : HandleChipMouseEnter(index)
    \/ \E index \in 0..MaxChips : HandleChipMouseUp(index)
    \/ ContainerMouseUp
    \/ ReleaseOutside
    \/ ContainerClick
    \/ \E index \in 0..MaxChips : ChipRemoveClicked(index)
SpecChips == InitChips /\ [][NextChips]_vars

\* ------------------------------------------------------------------ claims
\* The finished processName calls on record, and those that returned a result.
Finished == UNION {{hist[n][k] : k \in 1..Len(hist[n])} : n \in Names}
Returned == {h \in Finished : h.at = "returned"}

IsError(entry) == HasProp(entry, "error")
Fetches(trace, url) == {k \in 1..Len(trace) : trace[k].op = "fetch" /\ trace[k].arg = url}
Ops(trace, op) == {k \in 1..Len(trace) : trace[k].op = op}

\* The score the specification assigns to a list of detail entries.
LiveEntries(details) ==
    {k \in 1..Len(details) : ~IsError(details[k]) /\ details[k].status = "LIVE"}
FlaggedEntry(entry) ==
    HasProp(entry, "classes") /\ \E j \in 1..Len(entry.classes) : entry.classes[j] \in RedClasses
ExpectedScore(details) ==
    IF LiveEntries(details) = {} THEN "Green"
    ELSE IF \E k \in LiveEntries(details) : FlaggedEntry(details[k]) THEN "Red"
    ELSE "Yellow"

\* C1: every returned result has the score that its own non-error detail
\* records determine: Green without a LIVE record, Red with a LIVE record of
\* class 009, 028 or 041, Yellow otherwise; error-only entries do not count.
C1_ScoreFromDetails ==
    /\ \A h \in Returned : h.value.score = ExpectedScore(h.value.details)
    /\ \A p \in Procs : req[p].pc \in {"busy", "done"} =>
          \A n \in Names :
             (Present(req[p].result[n]) /\ HasProp(req[p].result[n], "score")) =>
                req[p].result[n].score = ExpectedScore(req[p].result[n].details)

\* A returned result holding an error-only entry next to a LIVE record whose
\* classes are not flagged: the score is Yellow.
C1_Witness ==
    \E h \in Returned :
       /\ \E k \in 1..Len(h.details) : IsError(h.details[k])
       /\ LiveEntries(h.details) # {}
       /\ h.value.score = "Yellow"

\* C2: two overlapping processName calls for the same name are never both
\* between their loadCache and their saveCache.
C2_NoInterleaving ==
    \A p, q \in Procs :
       (p # q /\ call[p].at = "detail" /\ call[q].at = "detail") =>
          call[p].name # call[q].name

\* What such an overlap costs: a call has saved a record that the file of the
\* name no longer holds.
StoredAt(fs, name, url) ==
    LET cache == LoadCache(fs, name)
    IN  IF cache.hasDetailCache THEN cache.detailCache[url] ELSE NoVal
C2_NoLostRecord ==
    \A h \in Returned : \A u \in URLs :
       (h.saveOk /\ Present(h.cached[u])) => Present(StoredAt(files, h.name, u))

SameUpstream(h1, h2) == h1.epoch0 = h2.epoch1

\* C3: of two successive calls for a name with no upstream change and no
\* storage failure, the second fetches no detail URL that the first one
\* cached and ends with the same outcome (score, explanation, details).
C3_Idempotent ==
    \A n \in Names :
       Len(hist[n]) = 2 =>
          LET h1 == hist[n][1]
              h2 == hist[n][2]
          IN  (SameUpstream(h1, h2) /\ h1.saveOk /\ h2.saveOk) =>
                 /\ h2.value = h1.value
                 /\ h1.at = "returned" =>
                       \A u \in URLs : Present(h1.cached[u]) => Fetches(h2.trace, u) = {}

\* Two such calls, the first of which fetched and cached a detail page.
C3_Witness ==
    \E n \in Names :
       /\ Len(hist[n]) = 2
       /\ SameUpstream(hist[n][1], hist[n][2])
       /\ hist[n][1].saveOk /\ hist[n][2].saveOk
       /\ hist[n][1].at = "returned" /\ hist[n][2].at = "returned"
       /\ \E u \in URLs : /\ Fetches(hist[n][1].trace, u) # {}
                          /\ Present(hist[n][1].cached[u])
                          /\ Fetches(hist[n][2].trace, u) = {}
       /\ hist[n][2].value.details # <<>>

ErrorOnly(entry) == DOMAIN entry = {"error"}
FailedLinks(h) == {k \in 1..Len(h.details) : IsError(h.details[k])}

\* C4: a failed detail fetch leaves an error-only entry at the position of
\* its link, the URL is not in the mapping that is saved, the other links
\* are still processed, and the next call for the name that lists the URL
\* fetches it again.
C4_FailedDetailRetried ==
    /\ \A h \in Returned :
          /\ Len(h.details) = Len(h.detailLinks)
          /\ \A k \in FailedLinks(h) :
                /\ ErrorOnly(h.details[k])
                /\ Cardinality(Fetches(h.trace, Url(h.detailLinks[k]))) = 1
                /\ ~Present(h.cached[Url(h.detailLinks[k])])
                /\ (h.saveOk /\ h = hist[h.name][Len(hist[h.name])]) =>
                      ~Present(StoredAt(files, h.name, Url(h.detailLinks[k])))
    /\ \A n \in Names :
          (Len(hist[n]) = 2 /\ hist[n][1].at = "returned" /\ hist[n][2].at = "returned") =>
             \A k \in FailedLinks(hist[n][1]) :
                LET rel == hist[n][1].detailLinks[k]
                IN  (\E j \in 1..Len(hist[n][2].detailLinks) : hist[n][2].detailLinks[j] = rel)
                       => Fetches(hist[n][2].trace, Url(rel)) # {}

\* A call in which the first of two links failed and the second was still
\* resolved, followed by a call for the same name that fetched the failed
\* URL again.
C4_Witness ==
    \E n \in Names :
       /\ Len(hist[n]) = 2
       /\ hist[n][1].at = "returned" /\ hist[n][2].at = "returned"
       /\ Len(hist[n][1].details) = 2
       /\ IsError(hist[n][1].details[1]) /\ ~IsError(hist[n][1].details[2])
       /\ Fetches(hist[n][2].trace, Url(hist[n][1].detailLinks[1])) # {}

\* The step in which the answer to the search fetch of handler p arrives.
SearchAnswered(p) == call[p].at = "search" /\ call'[p] # call[p]
Latest(h, n) == h[n][Len(h[n])]
Running(c) == c.at \in {"search", "detail"}
\* The call that handler p is running ends in this step: the batch loop
\* moves to the next position of the list.
EndsNow(p) == Running(call[p]) /\ req'[p].idx = req[p].idx + 1

\* C5: when the search fetch of a name fails, the outcome for the name is
\* {error: message} without score or details, and the cache file of the
\* name is neither read nor written.
C5_SearchFailure ==
    [][\A p \in Procs :
          (SearchAnswered(p) /\ search[call[p].name].kind # "ok") =>
             /\ files' = files
             /\ Len(hist'[call[p].name]) > 0
             /\ LET h == Latest(hist', call[p].name)
                IN  /\ h.proc = p
                    /\ DOMAIN h.value = {"error"}
                    /\ h.value.error =
                          <<"Failed to fetch", SearchUrl(call[p].name), search[call[p].name].status>>
                    /\ Ops(h.trace, "load") = {} /\ Ops(h.trace, "save") = {}
                    /\ call[p].name # "__proto__" =>
                          req'[p].result[call[p].name] = h.value]_vars

\* A failed search for a name whose cache file holds a record.
C5_Witness ==
    \E n \in Names :
       /\ Len(hist[n]) > 0
       /\ Latest(hist, n).at = "threw"
       /\ Len(Latest(hist, n).trace) = 1
       /\ \E u \in URLs : Present(StoredAt(files, n, u))

\* C6: the response to a batch maps every name of the list to a
\* SearchResult or to an {error} object.
C6_EveryNameAnswered ==
    \A p \in Procs :
       (req[p].pc = "done" /\ req[p].status = 200) =>
          \A k \in 1..Len(req[p].list) : Present(req[p].response[req[p].list[k]])

\* C7: the first thing a call does is fetch the search page of its name: a
\* call that returned a result issued that fetch before it read the cache,
\* whatever the cache held.
C7_SearchFirst ==
    /\ \A h \in Returned :
          /\ h.trace # <<>> /\ h.trace[1] = Event("fetch", SearchUrl(h.name))
          /\ \A k \in Ops(h.trace, "load") \cup Ops(h.trace, "save") : k > 1
    /\ \A p \in Procs :
          call[p].at # "none" =>
             /\ call[p].trace # <<>>
             /\ call[p].trace[1] = Event("fetch", SearchUrl(call[p].name))

\* A call that found every discovered link in the cache and still fetched
\* the search page.
C7_Witness ==
    \E h \in Returned :
       /\ h.details # <<>>
       /\ \A k \in 1..Len(h.detailLinks) : Present(h.loaded[Url(h.detailLinks[k])])
       /\ Cardinality(Ops(h.trace, "fetch")) = 1

\* The calls whose loop has started: finished ones and the one in progress.
Looping == Finished \cup {call[p] : p \in {q \in Procs : call[q].at = "detail"}}
BackFilled(record, url) ==
    IF HasProp(record, "detailUrl") THEN record ELSE SetProp(record, "detailUrl", url)

SameFiling(r1, r2) ==
    /\ Present(r2)
    /\ r1.status = r2.status
    /\ HasProp(r1, "classes") = HasProp(r2, "classes")
    /\ HasProp(r1, "classes") => r1.classes = r2.classes

Occurs(html, link) == {k \in 1..Len(html) : html[k] = link}
First(html, link) == CHOOSE k \in Occurs(html, link) : \A j \in Occurs(html, link) : k <= j

\* C10: the details of a returned result have exactly one entry for every
\* distinct link of the search page, in the order of the links' first
\* occurrences; the entry at a position is the record or the error of the
\* link at that position.
C10_OneEntryPerLink ==
    \A h \in Returned :
       /\ Len(h.value.details) = Cardinality({h.searchHtml[k] : k \in 1..Len(h.searchHtml)})
       /\ Len(h.detailLinks) = Len(h.value.details)
       /\ \A k \in 1..Len(h.detailLinks) :
             /\ Occurs(h.searchHtml, h.detailLinks[k]) # {}
             /\ \A j \in 1..(k - 1) :
                   First(h.searchHtml, h.detailLinks[j]) < First(h.searchHtml, h.detailLinks[k])
             /\ IF IsError(h.value.details[k])
                THEN h.value.details[k].error[2][2] = Url(h.detailLinks[k])
                ELSE h.value.details[k].detailUrl = Url(h.detailLinks[k])

\* A result for a page that names a link twice: two entries, the error of
\* the first link and the record of the second.
C10_Witness ==
    \E h \in Returned :
       /\ Len(h.searchHtml) > Len(h.value.details)
       /\ Len(h.value.details) = 2
       /\ IsError(h.value.details[1])
       /\ ~IsError(h.value.details[2])

\* The entries of two lists are the same up to their order.
Count(details, entry) == Cardinality({k \in 1..Len(details) : details[k] = entry})
Permuted(d1, d2) ==
    /\ Len(d1) = Len(d2)
    /\ \A k \in 1..Len(d1) : Count(d1, d1[k]) = Count(d2, d1[k])

\* C11: two results whose details are the same records in a different order
\* have the same score and explanation, and the score is Red whenever some
\* LIVE record has a class among 009, 028, 041, wherever it stands.
C11_OrderIndependent ==
    /\ \A h1, h2 \in Returned :
          Permuted(h1.value.details, h2.value.details) =>
             /\ h1.value.score = h2.value.score
             /\ h1.value.explanation = h2.value.explanation
    /\ \A h \in Returned :
          (\E k \in LiveEntries(h.value.details) : FlaggedEntry(h.value.details[k])) =>
             h.value.score = "Red"

\* Two results with the same two LIVE records in opposite orders, one of
\* them of a flagged class: both are Red.
C11_Witness ==
    \E h1, h2 \in Returned :
       /\ Len(h1.value.details) = 2 /\ Len(h2.value.details) = 2
       /\ h1.value.details[1] = h2.value.details[2]
       /\ h1.value.details[2] = h2.value.details[1]
       /\ LiveEntries(h1.value.details) = {1, 2}
       /\ FlaggedEntry(h1.value.details[1]) /\ ~FlaggedEntry(h1.value.details[2])
       /\ h1.value.score = "Red" /\ h2.value.score = "Red"

\* The search page of the call arrived and held no detail link.
NoLinkFound(h) == Ops(h.trace, "load") # {} /\ h.searchHtml = <<>>

\* C12: a call whose search page contains no detail link returns score
\* Green with an empty details list, whatever the cache file of the name
\* holds.
C12_NoLinkIsGreen ==
    \A h \in Finished :
       NoLinkFound(h) =>
          /\ h.at = "returned"
          /\ h.value.score = "Green"
          /\ h.value.details = <<>>

\* A call that found no link although the cache file held a LIVE record.
C12_Witness ==
    \E h \in Returned :
       /\ NoLinkFound(h)
       /\ \E u \in URLs : Present(h.loaded[u]) /\ h.loaded[u].status = "LIVE"
       /\ h.value.score = "Green" /\ h.value.details = <<>>

\* The cached records the call read for the links it discovered.
ReadBack(h) ==
    {h.loaded[Url(h.detailLinks[k])] : k \in {j \in 1..Len(h.detailLinks) :
                                              Present(h.loaded[Url(h.detailLinks[j])])}}
LacksField(record) ==
    ~HasProp(record, "classes") \/ ~HasProp(record, "detailUrl")

C15_MissingUrlTolerated ==
    \A h \in Finished :
       (Ops(h.trace, "load") # {} /\ \A record \in ReadBack(h) : HasProp(record, "classes")) =>
          h.at = "returned"

\* The call saved once, as its last step, with every discovered link resolved.
SavedOnceAtEnd(h) ==
    /\ Cardinality(Ops(h.trace, "save")) = 1
    /\ Ops(h.trace, "save") = {Len(h.trace)}
    /\ h.trace[Len(h.trace)].arg = SafeName(h.name)
    /\ Len(h.details) = Len(h.detailLinks)

\* C13: every call whose search page arrived saves the cache of its name
\* exactly once, after all discovered links are resolved, also when nothing
\* was fetched and when no link was discovered.
C13_SavedOnce ==
    \A h \in Finished : Ops(h.trace, "load") # {} => SavedOnceAtEnd(h)

\* What holds of C13 in the code: the calls that do not read a LIVE record
\* without classes save once at their end.
C13_SavedOnceUnlessThrown ==
    \A h \in Finished :
       (Ops(h.trace, "load") # {} /\ \A record \in ReadBack(h) : HasProp(record, "classes")) =>
          SavedOnceAtEnd(h)

\* Texts with characters that need escaping and characters of an escape.
TextChars == {"a", "/", "%", "2", "F"}
Texts == SeqsUpTo(TextChars, MaxText)
KeysDistinct ==
    /\ \A t1, t2 \in Texts : t1 # t2 => EncodeURIComponent(t1) # EncodeURIComponent(t2)
    /\ \A n1, n2 \in Names : n1 # n2 => SafeName(n1) # SafeName(n2)

\* The call of name n that handler p was running ends in this step.
Ends(p, n) == EndsNow(p) /\ call[p].name = n /\ Latest(hist', n).proc = p
\* What the call of handler p has loaded once this step is over.
LoadedBy(p) ==
    IF EndsNow(p) THEN Latest(hist', call[p].name).loaded ELSE call'[p].loaded
Discovered(h) == {Url(h.detailLinks[k]) : k \in 1..Len(h.detailLinks)}

\* C14: stores of different names are kept apart: distinct names have
\* distinct storage keys, a call of n loads its mapping from the file of n
\* only, the file of n is written by a call of n only, and every URL the
\* write adds or alters was discovered by that call's search for n.
C14_StoresApart ==
    [][ /\ KeysDistinct
        /\ \A p \in Procs :
             SearchAnswered(p) =>
                \A u \in URLs : Present(LoadedBy(p)[u]) =>
                   LoadedBy(p)[u] = StoredAt(files, call[p].name, u)
        /\ \A n \in Names :
             files'[SafeName(n)] # files[SafeName(n)] =>
                \E p \in Procs :
                   /\ Ends(p, n)
                   /\ \A u \in URLs :
                         StoredAt(files', n, u) # StoredAt(files, n, u) =>
                            u \in Discovered(Latest(hist', n)) ]_vars

\* Both names have been searched with different links discovered, and the
\* file of each holds a record for just the links of its own search.
C14_Witness ==
    \E n1, n2 \in Names :
       /\ n1 # n2
       /\ hist[n1] # <<>> /\ hist[n2] # <<>>
       /\ Discovered(Latest(hist, n1)) = {Url(LinkA)}
       /\ Discovered(Latest(hist, n2)) = {Url(LinkA), Url(LinkB)}
       /\ Present(StoredAt(files, n1, Url(LinkA)))
       /\ ~Present(StoredAt(files, n1, Url(LinkB)))
       /\ files[SafeName(n2)].kind = "json"

\* The file of the name is not there or cannot be read and parsed.
NoUsableFile(fs, name) == fs[SafeName(name)].kind \in {"absent", "corrupt"}
\* The call fetched each link it discovered once and returned a scored result.
FetchedEverything(h) ==
    /\ h.at = "returned"
    /\ h.value.score \in {"Green", "Yellow", "Red"}
    /\ Len(h.value.details) = Len(h.detailLinks)
    /\ \A u \in Discovered(h) : Cardinality(Fetches(h.trace, u)) = 1

\* C16: when the cache file of a name is absent, unreadable or corrupt, the
\* call gets an empty mapping from loadCache and nothing is raised: it then
\* fetches every discovered URL and returns a normal result.
C16_NoFileNoFailure ==
    [][ \A p \in Procs :
          (/\ SearchAnswered(p)
           /\ search[call[p].name].kind = "ok"
           /\ NoUsableFile(files, call[p].name)) =>
             /\ LoadedBy(p) = EmptyMap
             /\ EndsNow(p) => FetchedEverything(Latest(hist', call[p].name))
      /\ \A h \in Finished' :
          (Ops(h.trace, "load") # {} /\ h.loaded = EmptyMap) => FetchedEverything(h) ]_vars

\* A call that met a corrupt file (its failed save left the file as it was)
\* has fetched both links it discovered and returned.
C16_Witness ==
    /\ files[SafeName("acme")].kind = "corrupt"
    /\ \E h \in Returned :
          /\ h.name = "acme" /\ h.loaded = EmptyMap /\ ~h.saveOk
          /\ Len(h.detailLinks) = 2
          /\ FetchedEverything(h)

\* The call reached saveCache and the write failed.
SaveFailed(h) == Ops(h.trace, "save") # {} /\ ~h.saveOk
\* Two calls of one name that started from the same mapping and met the
\* same pages.
SameRun(h1, h2) ==
    /\ h1.name = h2.name /\ h1.loaded = h2.loaded
    /\ h1.searchHtml = h2.searchHtml /\ SameUpstream(h1, h2)
FetchedUrls(h) == {u \in Discovered(h) : Fetches(h.trace, u) # {}}

NoNamesString(body) == body.kind \in {"nonames", "notstring"}
BodiesWithoutNames == {body \in Bodies : NoNamesString(body)}
Rejected(r) ==
    /\ r.pc = "done" /\ r.status = 400 /\ r.list = <<>>
    /\ r.response = ErrorResult(<<"Missing or invalid \"names\" field.">>)

\* C18: a request whose names field is missing or is not a string is
\* answered with status 400 before any processing: no call of processName
\* starts, so no page is fetched and no cache file is read or written.
C18_BadNamesRejected ==
    [][ \A p \in Procs : \A body \in BodiesWithoutNames :
          Request(p, body) =>
             /\ Rejected(req'[p])
             /\ UNCHANGED <<call, files, hist, ncalls>> ]_vars

\* Both handlers hold the state that a request without a names string
\* leaves: rejected with status 400, no call started, no file written.
C18_Witness ==
    /\ \A p \in Procs : Rejected(req[p]) /\ call[p] = IdleCall
    /\ ncalls = 0
    /\ \A k \in Keys : files[k] = AbsentFile

\* The fetches of a running call that have been answered: the search fetch
\* once the cache is loaded, and one per entry of details that did not come
\* from the loaded mapping.
Answered(c) ==
    (IF Ops(c.trace, "load") # {} THEN 1 ELSE 0)
    + Cardinality({k \in 1..Len(c.details) : ~Present(c.loaded[Url(c.detailLinks[k])])})
Outstanding(c) == Cardinality(Ops(c.trace, "fetch")) - Answered(c)
\* The call is over: its cache is saved, or it threw and left an error.
Completed(h) ==
    \/ h.at = "returned" /\ Ops(h.trace, "save") = {Len(h.trace)}
    \/ h.at = "threw" /\ IsError(h.value)

\* C19: the names of one request are processed one after the other: the
\* search fetch of a name is issued only when the call of the previous name
\* of the list is over, and a request has one fetch outstanding while it is
\* busy and none otherwise.
C19_OneAtATime ==
    [][ \A p \in Procs :
          /\ Running(call'[p]) =>
                /\ Outstanding(call'[p]) = 1
                /\ req'[p].pc = "busy"
                /\ call'[p].name = req'[p].list[req'[p].idx]
          /\ ~Running(call'[p]) => call'[p] = IdleCall /\ req'[p].pc # "busy"
          /\ (call'[p] # call[p] /\ call'[p].at = "search") =>
                \/ call[p] = IdleCall /\ req'[p].idx = 1
                \/ /\ EndsNow(p)
                   /\ Latest(hist', call[p].name).proc = p
                   /\ Completed(Latest(hist', call[p].name)) ]_vars

\* A handler is at the second name of its list with a detail fetch
\* outstanding, the call of the first name being over.
C19_Witness ==
    \E p \in Procs :
       /\ req[p].pc = "busy" /\ req[p].idx = 2
       /\ call[p].at = "detail" /\ Outstanding(call[p]) = 1
       /\ \E h \in Finished : h.proc = p /\ h.name = req[p].list[1] /\ Completed(h)

\* No URL occurs in two fetches of the trace.
NoRepeatedFetch(trace) ==
    \A j, k \in Ops(trace, "fetch") : j # k => trace[j].arg # trace[k].arg
\* The answer that handler p is waiting for is a failure.
AwaitsFailure(p) ==
    \/ call[p].at = "search" /\ search[call[p].name].kind = "http"
    \/ call[p].at = "detail" /\ detail[call[p].detailLinks[call[p].i]].kind = "http"
\* The locals of the call of handler p once this step is over.
After(p) == IF EndsNow(p) THEN Latest(hist', call[p].name) ELSE call'[p]
Stepped(p) == call'[p] # call[p] \/ EndsNow(p)

\* C20: no fetch is retried: a call fetches its search URL and each detail
\* URL at most once; a failed search fetch ends the call with an error and
\* a failed detail fetch leaves an error entry for its link and the loop
\* moves on; and when every issued fetch is answered in the end, every
\* request that was accepted sends its response.
C20_NoRetryAndResponse ==
    /\ [][ /\ \A p \in Procs : Running(call'[p]) => NoRepeatedFetch(call'[p].trace)
           /\ \A h \in Finished' : NoRepeatedFetch(h.trace)
           /\ \A p \in Procs :
                (Running(call[p]) /\ Stepped(p) /\ AwaitsFailure(p)) =>
                   IF call[p].at = "search"
                   THEN /\ After(p).at = "threw" /\ IsError(After(p).value)
                        /\ Cardinality(Ops(After(p).trace, "fetch")) = 1
                   ELSE /\ Len(After(p).details) >= call[p].i
                        /\ ErrorOnly(After(p).details[call[p].i])
                        /\ Cardinality(Fetches(After(p).trace,
                                               Url(call[p].detailLinks[call[p].i]))) = 1 ]_vars
    /\ \A p \in Procs : (req[p].pc = "busy") ~> (req[p].pc = "done")

\* A request has been answered although a detail fetch of its call failed:
\* the call fetched that URL once and returned with an error entry for it.
C20_Witness ==
    \E p \in Procs : \E h \in Returned :
       /\ req[p].pc = "done" /\ req[p].status = 200 /\ h.proc = p
       /\ \E k \in 1..Len(h.details) :
             /\ ErrorOnly(h.details[k])
             /\ Cardinality(Fetches(h.trace, Url(h.detailLinks[k]))) = 1

\* What loadCache reads back from the text that saveCache writes for a mapping.
Reloaded(cached) ==
    JSONparse(JSONstringify([hasDetailCache |-> TRUE, detailCache |-> cached])).value.detailCache
SameClassification(r1, r2) ==
    /\ HasProp(r1, "status") = HasProp(r2, "status")
    /\ HasProp(r1, "status") => r1.status = r2.status
    /\ HasProp(r1, "classes") = HasProp(r2, "classes")
    /\ HasProp(r1, "classes") =>
          {r1.classes[k] : k \in 1..Len(r1.classes)} = {r2.classes[k] : k \in 1..Len(r2.classes)}
    /\ ExpectedScore(<<r1>>) = ExpectedScore(<<r2>>)

\* C21: a detail record that a call saved and that is loaded again has the
\* same status and the same classes as the original, and so gives the same
\* score: this holds of the text written for the mapping of every returned
\* call, and of what the next call of the name in fact loaded.
C21_RoundTrip ==
    /\ \A h \in Returned : \A u \in URLs :
          Present(h.cached[u]) =>
             /\ Present(Reloaded(h.cached)[u])
             /\ SameClassification(h.cached[u], Reloaded(h.cached)[u])
    /\ \A n \in Names :
          (/\ Len(hist[n]) = 2
           /\ hist[n][1].at = "returned" /\ hist[n][1].saveOk
           /\ Ops(hist[n][2].trace, "load") # {}) =>
             \A u \in URLs :
                Present(hist[n][1].cached[u]) =>
                   /\ Present(hist[n][2].loaded[u])
                   /\ SameClassification(hist[n][1].cached[u], hist[n][2].loaded[u])

\* A call parsed a live record with a flagged class and saved it; the next
\* call of the name loaded it back, did not fetch it, and scored Red again.
C21_Witness ==
    \E n \in Names : \E u \in URLs :
       /\ Len(hist[n]) = 2
       /\ hist[n][1].at = "returned" /\ hist[n][1].saveOk
       /\ Fetches(hist[n][1].trace, u) # {}
       /\ Present(hist[n][1].cached[u])
       /\ hist[n][1].cached[u].status = "LIVE" /\ FlaggedEntry(hist[n][1].cached[u])
       /\ hist[n][2].at = "returned"
       /\ Present(hist[n][2].loaded[u])
       /\ Fetches(hist[n][2].trace, u) = {}
       /\ hist[n][1].value.score = "Red" /\ hist[n][2].value.score = "Red"

\* The text of a store: nothing but the member detailCache, whose members
\* are records keyed by detail URL, none of which has a score.
OnlyMapping(text) ==
    \A k \in 1..Len(text) :
       /\ text[k][1] = "detailCache"
       /\ \A j \in 1..Len(text[k][2]) :
             /\ text[k][2][j][1] \in URLs
             /\ ~HasMember(text[k][2][j][2], "score")
             /\ ~HasMember(text[k][2][j][2], "explanation")
Undiscovered(h) == URLs \ Discovered(h)

\* C22: the score is never persisted or reused: a store holds only the
\* mapping from detail URL to detail record, and the score of a returned
\* result is the one its own details give, entry k of which belongs to the
\* k-th link discovered by that call; a stored record whose URL the search
\* did not discover is in no entry.
C22_ScoreNotStored ==
    /\ \A k \in DOMAIN files : files[k].kind = "json" => OnlyMapping(files[k].value)
    /\ \A h \in Returned :
          /\ h.value.score = ExpectedScore(h.value.details)
          /\ Len(h.value.details) = Len(h.detailLinks)
          /\ \A k \in 1..Len(h.value.details) :
                ~IsError(h.value.details[k]) =>
                   /\ h.value.details[k].detailUrl = Url(h.detailLinks[k])
                   /\ h.value.details[k].detailUrl \notin Undiscovered(h)

\* A call loaded a live record whose URL its search did not list, returned
\* Green, and wrote the record back to the store.
C22_Witness ==
    \E h \in Returned : \E u \in Undiscovered(h) :
       /\ Present(h.loaded[u]) /\ h.loaded[u].status = "LIVE"
       /\ h.value.score = "Green" /\ h.saveOk
       /\ h = Latest(hist, h.name)
       /\ Present(StoredAt(files, h.name, u))

Matches(html) == {k \in 1..Len(html) : IsDetailPath(html[k])}

\* C23: extractDetailLinks returns the distinct detail paths of the markup
\* in the order of their first occurrence, each once, and the empty
\* sequence for a markup that is empty or has no detail path.
C23_FirstOccurrenceOrder ==
    parsed.fn = "extractDetailLinks" =>
       LET links == parsed.value
       IN  /\ \A k \in Matches(markup) : \E i \in 1..Len(links) : links[i] = markup[k]
           /\ \A i \in 1..Len(links) : \E k \in Matches(markup) : links[i] = markup[k]
           /\ \A i, j \in 1..Len(links) :
                 i < j => /\ links[i] # links[j]
                          /\ First(markup, links[i]) < First(markup, links[j])
           /\ Matches(markup) = {} => links = <<>>

\* A path that occurs before and after another one is returned before it.
C23_Witness ==
    /\ parsed.fn = "extractDetailLinks"
    /\ markup = <<LinkB, LinkA, LinkB>>
    /\ parsed.value = <<LinkB, LinkA>>

\* A token that ends a word: white space or a tag.
Delimiter(token) == IsSpace(token) \/ token \in Tags
WholeWord(html, word) ==
    \E k \in 1..Len(html) :
       /\ UpperCase(html[k]) = word
       /\ k = 1 \/ Delimiter(html[k - 1])
       /\ k = Len(html) \/ Delimiter(html[k + 1])
WordsPresent(html) == {word \in {"LIVE", "DEAD"} : WholeWord(html, word)}

\* C25: parseDetail sets status to LIVE or DEAD whenever that word occurs in
\* the markup as a whole word, in any case and whatever delimits it (white
\* space, a tag, the start or the end of the text), and to the empty string
\* only if neither word occurs.
C25_WholeWordStatus ==
    parsed.fn = "parseDetail" =>
       IF WordsPresent(markup) = {} THEN parsed.value.status = ""
       ELSE parsed.value.status \in WordsPresent(markup)

\* What the code does guarantee: a status that is not empty is a word that
\* occurs in the markup with white space on both sides.
C25_StatusOnlyIfSpaced ==
    parsed.fn = "parseDetail" =>
       /\ parsed.value.status \in {"", "LIVE", "DEAD"}
       /\ parsed.value.status # "" =>
             /\ Spaced(markup, parsed.value.status)
             /\ parsed.value.status \in WordsPresent(markup)
       /\ parsed.value.status = "" => ~Spaced(markup, "LIVE") /\ ~Spaced(markup, "DEAD")

\* A text of words separated by single spaces: no arrow, no tag, no white
\* space at its ends.
Words == {"Acme", "Sydney"}
IsPlain(text) ==
    /\ text # <<>>
    /\ \A k \in 1..Len(text) : text[k] \in Words \/ IsSpace(text[k])
    /\ ~IsSpace(text[1]) /\ ~IsSpace(text[Len(text)])
    /\ \A k \in 1..(Len(text) - 1) : ~(IsSpace(text[k]) /\ IsSpace(text[k + 1]))
\* The cell reads N, arrow, A with at most one space on each side of the arrow.
ArrowAt(cell, k) ==
    LET left == SubSeq(cell, 1, k - 1)
        right == SubSeq(cell, k + 1, Len(cell))
    IN  /\ cell[k] \in ArrowTokens
        /\ IsPlain(TrimText(left)) /\ IsPlain(TrimText(right))
        /\ left \in {TrimText(left), TrimText(left) \o <<" ">>}
        /\ right \in {TrimText(right), <<" ">> \o TrimText(right)}

\* C26: for an owner cell without sub-blocks that reads N, an arrow, A,
\* parseDetail gives ownerName = N, ownerAddress = A and owner = "N, A";
\* for a cell of plain text without an arrow it gives ownerName = the whole
\* text, an empty ownerAddress and owner = ownerName.
C26_OwnerSplit ==
    (parsed.fn = "parseDetail" /\ HasOwnerCell(markup)) =>
       LET cell == OwnerCell(markup)
           info == parsed.value
       IN  /\ \A k \in 1..Len(cell) :
                 ArrowAt(cell, k) =>
                    LET N == TrimText(SubSeq(cell, 1, k - 1))
                        A == TrimText(SubSeq(cell, k + 1, Len(cell)))
                    IN  /\ info.ownerName = N
                        /\ info.ownerAddress = A
                        /\ info.owner = N \o <<",", " ">> \o A
           /\ IsPlain(cell) =>
                 /\ info.ownerName = cell
                 /\ info.ownerAddress = <<>>
                 /\ info.owner = info.ownerName

\* "Acme -> Sydney" has been parsed into the owner "Acme, Sydney".
C26_Witness ==
    /\ parsed.fn = "parseDetail"
    /\ markup = OwnerMarkup(<<"Acme", " ", "->", " ", "Sydney">>)
    /\ parsed.value.ownerName = <<"Acme">>
    /\ parsed.value.ownerAddress = <<"Sydney">>
    /\ parsed.value.owner = <<"Acme", ",", " ", "Sydney">>

\* The pieces of a names string that are not blank, in their order.
NamesBodies == {body \in Bodies : body.kind = "names" /\ body.pieces # <<"">>}
NonBlank(pieces) == SelectSeq(pieces, LAMBDA x : x \in Names)
Keys200(r) == {n \in Names : Present(r.response[n])}
Listed(r) == {r.list[k] : k \in 1..Len(r.list)}

\* What the handler does with the pieces: the list of a request is the
\* non-blank pieces in their order, and the call that runs for the request
\* is the one of the piece the batch loop has reached.
C24_ProcessedInOrder ==
    [][ \A p \in Procs :
          /\ \A body \in NamesBodies :
                Request(p, body) => req'[p].list = NonBlank(body.pieces)
          /\ Running(call'[p]) =>
                /\ req'[p].pc = "busy" /\ req'[p].idx \in 1..Len(req'[p].list)
                /\ call'[p].name = req'[p].list[req'[p].idx]
          /\ (req'[p].pc = "done" /\ req'[p].status = 200) =>
                /\ req'[p].idx = Len(req'[p].list) + 1
                /\ Keys200(req'[p]) \subseteq Listed(req'[p]) ]_vars

\* C24: the names string is split on commas and newlines, the pieces are
\* trimmed and the empty ones dropped; the names processed are exactly
\* these pieces in their order, and the response has one key per distinct
\* piece.
C24_NamesSplit ==
    [][ \A p \in Procs :
          /\ \A body \in NamesBodies :
                Request(p, body) => req'[p].list = NonBlank(body.pieces)
          /\ Running(call'[p]) => call'[p].name = req'[p].list[req'[p].idx]
          /\ (req'[p].pc = "done" /\ req'[p].status = 200) =>
                Keys200(req'[p]) = Listed(req'[p]) ]_vars

HasDetailUrl(entry, link) ==
    HasProp(entry, "detailUrl") /\ entry.detailUrl = <<baseUrl, link>>

\* C27: every non-error entry of the details of a returned result has a
\* detailUrl that is the base URL followed by the link discovered at its
\* position, for a record just fetched as for one reused from the cache,
\* and the record kept in the mapping under that URL has it too.
C27_DetailUrlEverywhere ==
    \A h \in Returned :
       /\ Len(h.value.details) = Len(h.detailLinks)
       /\ \A k \in 1..Len(h.value.details) :
             ~IsError(h.value.details[k]) =>
                /\ HasDetailUrl(h.value.details[k], h.detailLinks[k])
                /\ HasDetailUrl(h.cached[Url(h.detailLinks[k])], h.detailLinks[k])

\* A returned result with a record reused from a stored record that had no
\* detailUrl and a record that the call fetched.
C27_Witness ==
    \E h \in Returned : \E k, j \in 1..Len(h.value.details) :
       /\ Present(h.loaded[Url(h.detailLinks[k])])
       /\ ~HasProp(h.loaded[Url(h.detailLinks[k])], "detailUrl")
       /\ HasDetailUrl(h.value.details[k], h.detailLinks[k])
       /\ ~Present(h.loaded[Url(h.detailLinks[j])])
       /\ Fetches(h.trace, Url(h.detailLinks[j])) # {}
       /\ HasDetailUrl(h.value.details[j], h.detailLinks[j])

\* A finished call that loaded nothing and ran against the upstream as it is now.
OnEmptyCache(h) == h.loaded = EmptyMap /\ h.epoch0 = h.epoch1 /\ h.epoch1 = epoch
OwnerProps == {"ownerName", "ownerAddress", "owner"}
WithoutOwner(entry) == [f \in DOMAIN entry \ OwnerProps |-> entry[f]]
ButOwner(value) ==
    IF IsError(value) THEN value
    ELSE [value EXCEPT !.details = [k \in 1..Len(value.details) |-> WithoutOwner(value.details[k])]]

\* C28: on an empty cache and with the same upstream responses and
\* failures, the caching processName ends with the score, explanation and
\* details (or with the error) that the processName without cache gives.
C28_SameAsWithoutCache ==
    \A h \in Finished :
       OnEmptyCache(h) => h.value = ProcessNameNoCache(h.name, search[h.name], detail)

\* What the two have in common: everything but the owner of a record.
C28_SameButOwner ==
    \A h \in Finished :
       OnEmptyCache(h) =>
          ButOwner(h.value) = ButOwner(ProcessNameNoCache(h.name, search[h.name], detail))

NamesOf(rq) == {rq.names[k] : k \in 1..Len(rq.names)}
InFlight == {client.sent[id] : id \in client.inflight}
SharingName(kind1, kind2) ==
    \E i, j \in client.inflight :
       /\ i # j
       /\ client.sent[i].kind = kind1 /\ client.sent[j].kind = kind2
       /\ NamesOf(client.sent[i]) \cap NamesOf(client.sent[j]) # {}

\* C29: the page never has two /api/search requests in flight that contain
\* the same name: not a prefetch and a handleSearch request, and not two
\* handleSearch requests.
C29_NoNameInFlightTwice ==
    client.open =>
       /\ ~SharingName("prefetch", "search")
       /\ ~SharingName("search", "search")

PrefetchesOf(n) ==
    {id \in 1..Len(client.sent) : client.sent[id].kind = "prefetch" /\ n \in NamesOf(client.sent[id])}

\* C30: whatever chips are added, removed and added again, every name is in
\* at most one request of the prefetch effect.
C30_PrefetchedOnce ==
    client.open => \A n \in ChipNames : Cardinality(PrefetchesOf(n)) <= 1

\* What holds of the names that become properties of prefetchCache: such a
\* name is in at most one prefetch request, is a property from then on, and
\* two prefetch requests in flight share none.
C30_OrdinaryNamesOnce ==
    client.open =>
       /\ \A n \in OrdinaryNames :
             /\ Cardinality(PrefetchesOf(n)) <= 1
             /\ PrefetchesOf(n) # {} => HasOwn(client.prefetchCache, n)
       /\ \A i, j \in client.inflight :
             (i # j /\ client.sent[i].kind = "prefetch" /\ client.sent[j].kind = "prefetch") =>
                NamesOf(client.sent[i]) \cap NamesOf(client.sent[j]) \subseteq {"__proto__"}

Covers(res, names) == res.shown /\ \A k \in 1..Len(names) : names[k] \in res.names
Completes(id) == SearchSettles(id, TRUE)
CompletesAtOnce(via) == HandleSearch(via) /\ client.chips # <<>> /\ ~client'.loading

\* C31: when a handleSearch completes without error, results has an entry
\* for every chip of the list it searched.
C31_EveryChipInResults ==
    [][ /\ \A id \in 1..MaxRequests + 1 :
             Completes(id) => Covers(client'.results, client.sent[id].list)
        /\ \A via \in {"button", "enter"} :
             (CompletesAtOnce(via) /\ client'.results.shown) =>
                Covers(client'.results, client.chips) ]_vars

\* What holds: results has an entry for every chip of the list that is a
\* name an object can have as a property, and for no other name.
C31_OrdinaryChipsInResults ==
    [][ \A id \in 1..MaxRequests + 1 :
           Completes(id) =>
              /\ client'.results.shown
              /\ client'.results.names =
                    (NamesOf(client.sent[id]) \cup CachedFor(client.sent[id])) \ {"__proto__"} ]_vars

Elems(seq) == {seq[k] : k \in 1..Len(seq)}
NewRequests == {id \in 1..Len(client'.sent) : id > Len(client.sent)}
\* The step starts a search whose list has val, or shows results with val.
SearchesFor(val) ==
    \/ \E id \in NewRequests :
          client'.sent[id].kind = "search" /\ val \in Elems(client'.sent[id].list)
    \/ NewRequests = {} /\ client'.results.shown /\ val \in client'.results.names

\* C32: a handleSearch that runs while the input holds text makes the text
\* a chip and searches for it: the text is in the list of this search.
C32_ResidualInputSearched ==
    [][ \A via \in {"button", "enter"} :
           (HandleSearch(via) /\ client.inputValue # "") =>
              /\ client.inputValue \in Elems(client'.chips)
              /\ SearchesFor(client.inputValue) ]_vars

\* What holds: the text becomes a chip and the input is emptied, and the
\* search is for the chips as they were before.
C32_ResidualInputBecomesChip ==
    [][ \A via \in {"button", "enter"} :
           (HandleSearch(via) /\ client.inputValue # "") =>
              /\ client.inputValue \in Elems(client'.chips)
              /\ client'.inputValue = ""
              /\ \A id \in NewRequests :
                    client'.sent[id].kind = "search" => client'.sent[id].list = client.chips
              /\ client.chips = <<>> =>
                    ~client'.loading /\ client'.results = client.results ]_vars

\* The handleSearch calls that wait for their request.
SearchesInProgress == {id \in client.inflight : client.sent[id].kind = "search"}

\* C36: loading is true exactly while a handleSearch is in progress, also
\* when Enter starts a search while another one is still running.
C36_LoadingIffSearching ==
    client.open => (client.loading <=> SearchesInProgress # {})

\* What holds: loading is true only while a handleSearch is in progress.
C36_LoadingOnlyWhileSearching ==
    client.open => (client.loading => SearchesInProgress # {})

Shown == <<client.results, client.loading, client.error>>
PrefetchStarts ==
    \E id \in NewRequests : client'.sent[id].kind = "prefetch"
IsHandleSearch ==
    \/ \E via \in {"button", "enter"} : HandleSearch(via)
    \/ \E id \in 1..MaxRequests + 1, ok \in BOOLEAN : SearchSettles(id, ok)

\* C37: the start, the success and the failure of a prefetch leave results,
\* loading and error as they are, and results changes only in a step of
\* handleSearch.
C37_PrefetchOnlyFillsCache ==
    [][ /\ \A id \in 1..MaxRequests + 1, ok \in BOOLEAN :
             PrefetchSettles(id, ok) => UNCHANGED Shown
        /\ (PrefetchStarts /\ ~IsHandleSearch) => UNCHANGED Shown
        /\ client'.results # client.results => IsHandleSearch ]_vars

\* A prefetch has been answered for a chip that the results on display, of
\* an earlier search, do not have.
C37_Witness ==
    /\ client.open /\ client.results.shown /\ ~client.loading
    /\ \E n \in Elems(client.chips) \cap OrdinaryNames :
          /\ client.prefetchCache.own[n] \in {"result", "error"}
          /\ n \notin client.results.names
          /\ \E id \in PrefetchesOf(n) : id \notin client.inflight

\* C33: whatever the events on the chip input have been, no chip is
\* empty, none has white space at an end, and no two chips are equal.
C33_ChipsDistinctTrimmed ==
    client.open =>
       \A k \in 1..Len(client.chips) :
          /\ client.chips[k] # <<>>
          /\ TrimText(client.chips[k]) = client.chips[k]
          /\ \A j \in 1..Len(client.chips) : j # k => client.chips[j] # client.chips[k]

\* Two chips, one of them with a comma inside, after more values have been
\* chips than there are chips now, and a text with a space at its end in
\* the input.
C33_Witness ==
    /\ client.open
    /\ Len(client.chips) = 2
    /\ \E k \in 1..2 : "," \in Elems(client.chips[k])
    /\ Cardinality(client.prefetched) > 2
    /\ client.inputValue = <<"a", " ">>

Has(text, chars) == \E k \in 1..Len(text) : text[k] \in chars

\* C34: no chip has a comma or a newline in it, and the list the server
\* splits out of the names field of a request equals the list of chips that
\* the page joined into it.
C34_SplitInvertsJoin ==
    client.open =>
       /\ \A k \in 1..Len(client.chips) : ~Has(client.chips[k], {",", "\n"})
       /\ client.names.posted => SplitList(client.names.field) = client.names.list

\* What holds: no chip has a newline in it, and the split gives back the
\* joined list when no chip of it has a comma.
C34_SplitInvertsJoinWithoutComma ==
    client.open =>
       /\ \A k \in 1..Len(client.chips) : ~Has(client.chips[k], {"\n"})
       /\ (/\ client.names.posted
           /\ \A k \in 1..Len(client.names.list) : ~Has(client.names.list[k], {","}))
             => SplitList(client.names.field) = client.names.list

\* C35: every selected index is the index of a chip, whatever the events
\* have been, also after a button that went down on a chip and came up
\* where the page has no handler.
C35_SelectionWithinChips ==
    client.open => client.selectedIndices \subseteq Indices(client.chips)

\* What holds: no selected index is negative, and a step of handleChipRemove
\* or of the removal of the selection leaves no index outside the chips
\* when there was none before.
C35_RemovalKeepsSelectionWithin ==
    [][ /\ \A i \in client'.selectedIndices : i >= 0
        /\ \A index \in 0..MaxChips :
              (ChipRemoveClicked(index) /\ client.selectedIndices \subseteq Indices(client.chips))
                 => client'.selectedIndices \subseteq Indices(client'.chips)
        /\ \A key \in {"Backspace", "Delete", "a", " ", ","} :
              (HandleInputKeyDown(key, FALSE) /\ client.selectedIndices # {})
                 => client'.selectedIndices = {} ]_vars

\* The button comes up, on the chip of index or beside the chips.
Release(index) == HandleChipMouseUp(index) \/ (ContainerMouseUp /\ index = Null)
Click(index) ==
    /\ client.gesture.on /\ client.gesture.mouseOnly
    /\ client.gesture.pressed = index /\ client.gesture.entered = {}
    /\ HandleChipMouseUp(index)
Drag(index) ==
    /\ client.gesture.on /\ client.gesture.mouseOnly
    /\ client.gesture.entered # {}
    /\ Release(index)

\* C38: a press and a release on one chip with no chip entered in between
\* is a click: the chip leaves chips, its value is in the input and nothing
\* is selected.  A press, a chip entered and a release is a drag: chips is
\* unchanged, the pressed chip and the chips entered are selected, and
\* dragSelecting is false after the release.  dragSelecting is never true
\* while mouseDownFlag is false.
C38_ClickOrDrag ==
    [][ /\ \A index \in 0..MaxChips :
              Click(index) =>
                 /\ client'.chips = Filter(client.chips, LAMBDA i : i # index)
                 /\ client'.inputValue = client.chips[index + 1]
                 /\ client'.selectedIndices = {}
        /\ \A index \in {Null} \cup 0..MaxChips :
              Drag(index) =>
                 /\ client'.chips = client.chips
                 /\ {client.gesture.pressed} \cup client.gesture.entered
                        \subseteq client'.selectedIndices
                 /\ ~client'.dragSelecting
        /\ client'.dragSelecting => client'.mouseDownFlag ]_vars

\* What holds: dragSelecting is never true while mouseDownFlag is false; a
\* click and a drag are as stated when dragSelecting was false as the
\* button went down.
C38_ClickOrDragAfterSeenRelease ==
    [][ /\ client'.dragSelecting => client'.mouseDownFlag
        /\ \A index \in 0..MaxChips :
              /\ (Click(index) /\ ~client.dragSelecting) =>
                    /\ client'.chips = Filter(client.chips, LAMBDA i : i # index)
                    /\ client'.inputValue = client.chips[index + 1]
                    /\ client'.selectedIndices = {}
              /\ (/\ HandleChipMouseEnter(index)
                   /\ client.gesture.on /\ client.gesture.mouseOnly
                   /\ client.gesture.entered = {} /\ ~client.dragSelecting) =>
                    client'.selectedIndices = {client.gesture.pressed, index}
        /\ \A index \in {Null} \cup 0..MaxChips :
              (Release(index) /\ client.dragSelecting) =>
                 /\ client'.chips = client.chips
                 /\ client'.selectedIndices = client.selectedIndices
                 /\ ~client'.dragSelecting /\ ~client'.mouseDownFlag ]_vars
====
